---------------------------- MODULE Spec2Model ----------------------------
(***************************************************************************)
(* A model of jsonrpc-proxy: the permissioning middleware, the simple      *)
(* response cache, the transaction-signing middleware and the upstream     *)
(* correlation engine (Shared + the WebSocket upstream transport).         *)
(*                                                                         *)
(* Each component has its own variables and its own specification          *)
(* (SpecPerm, SpecCache, SpecSign, SpecUp, ...); a specification leaves the*)
(* variables of the other components at their initial value.               *)
(*                                                                         *)
(* Option<T> is modelled as a sequence: None is << >>, Some(x) is <<x>>.   *)
(***************************************************************************)
EXTENDS Integers, Sequences, FiniteSets, TLC

VARIABLES
    \* ---- permissioning::Middleware ----
    permBase,        \* Middleware.base : Access
    permissioned,    \* Middleware.permissioned : method name -> Option<Access>
    permLog,         \* history: one record per on_call, in call order
    permNextCalled,  \* how many times `next` was invoked (the tests' `called`)
    \* ---- simple_cache::Middleware ----
    cacheEnabled,    \* Middleware.enabled
    cached,          \* Middleware.cached : digest -> Option<(Option<Output>, MethodMeta)>
    cacheNow,        \* time::Instant::now(), in seconds
    cacheCalls,      \* one record per on_call, in call order: the call, the
                     \* Action chosen, the future's state and its output
    \* ---- ethereum_proxy_accounts::Middleware ----
    signSecret,      \* Middleware.secret is Some(_)
    signId,          \* Middleware.id : AtomicUsize
    signLock,        \* Middleware.lock : Option<oneshot::Receiver<()>>, the
                     \* receiver named by the call that holds its sender
    signCalls,       \* one record per on_call, in call order: the position
                     \* of its future, what it awaits and what it produced
    signUp,          \* requests handed to the upstream closure, unanswered
    signSent,        \* every request handed to the upstream closure, in order
    \* ---- upstream::shared::Shared, ws_upstream::WebSocket, pubsub::Session ----
    upPending,       \* Shared.pending : rpc::Id -> Option<Pending>
    upSubs,          \* Shared.subscriptions : SubscriptionId -> Option<Weak<Session>>
    upWire,          \* frames given to write_sender, in order
    upAnswered,      \* positions in upWire upstream has answered
    upSubCounter,    \* subscription ids upstream has issued so far
    upCalls,         \* one record per client call, in call order
    sessOpen,        \* the client connection of a session is open
    sessDropped,     \* Session::drop has run
    sessHooks,       \* Session.on_drop : subscription ids the hooks hold
    hookRuns,        \* subscription id -> how often its on-drop hook ran
    unsubscribed,    \* subscription ids removed since they were registered
    upLastNotif,     \* the last notification frame upstream emitted: its
                     \* subscription and the sessions whose sink got it
    upStuck,         \* a thread waits for Shared.pending while holding it
    upBudget,        \* client calls the behaviour may still make
    upConnected,     \* the task of the upstream connection is running
    upEmitted,       \* the notification frames upstream emitted, in order
    upNotifsLeft,    \* notifications upstream may still emit
    sessSink,        \* Session.sender(): the messages pushed to a session
    clientGot,       \* the frames written to a client's connection, in order
    \* ---- transaction::SignedTransaction (rlp::Encodable / rlp::Decodable) ----
    rlpPc,           \* "idle", "args", "built", "panicked", "inspected",
                     \* "encoded" or "decoded"
    rlpArgs,         \* the arguments of SignedTransaction::new
    rlpTx,           \* Option<SignedTransaction>: what new returned
    rlpEncoded,      \* Option<rlp item>: the encoding handed to decode
    rlpTampered,     \* how the encoding was altered before decoding
    rlpDecoded,      \* Option<Result<SignedTransaction, DecoderError>>
    rlpView          \* Option<(chain_id(), standard_v())> of rlpTx

permVars == <<permBase, permissioned, permLog, permNextCalled>>

cacheVars == <<cacheEnabled, cached, cacheNow, cacheCalls>>

signVars == <<signSecret, signId, signLock, signCalls, signUp, signSent>>

upVars == <<upPending, upSubs, upWire, upAnswered, upSubCounter, upCalls,
            sessOpen, sessDropped, sessHooks, hookRuns, unsubscribed,
            upLastNotif, upStuck, upBudget, upConnected, upEmitted,
            upNotifsLeft, sessSink, clientGot>>

rlpVars == <<rlpPc, rlpArgs, rlpTx, rlpEncoded, rlpTampered, rlpDecoded,
             rlpView>>

vars == <<permVars, cacheVars, signVars, upVars, rlpVars>>

None == << >>

Some(x) == <<x>>

IsSome(o) == Len(o) = 1

Unwrap(o) == o[1]

---------------------------------------------------------------------------
(***************************************************************************)
(* Permissioning middleware (plugins/permissioning/src/lib.rs)             *)
(***************************************************************************)

\* Number of calls one behaviour of SpecPerm handles.
MaxPermCalls == 2

Access == {"Allow", "Deny"}

PermMethods == {"eth_getBlock", "eth_call"}

Versions == {None, Some("2.0")}

PermIds == {1, 2}

\* rpc::Call as the middleware sees it.  An Invalid call carries only an id.
MethodCall(v, i, m) == [kind |-> "MethodCall", jsonrpc |-> v, id |-> Some(i), method |-> Some(m)]

Notification(v, m) == [kind |-> "Notification", jsonrpc |-> v, id |-> None, method |-> Some(m)]

Invalid(i) == [kind |-> "Invalid", jsonrpc |-> None, id |-> Some(i), method |-> None]

PermCalls ==
    {MethodCall(v, i, m) : v \in Versions, i \in PermIds, m \in PermMethods}
    \cup {Notification(v, m) : v \in Versions, m \in PermMethods}
    \cup {Invalid(i) : i \in PermIds}

\* to_action (lib.rs:120-123)
to_action(access) == IF access = "Allow" THEN "Next" ELSE "Reject"

\* A variant of PermAction: the override table is consulted for every call that
\* names a method, notifications included.
PermActionAnyNamed(base, overrides, call) ==
    IF IsSome(call.method) /\ IsSome(overrides[Unwrap(call.method)])
    THEN to_action(Unwrap(overrides[Unwrap(call.method)]))
    ELSE to_action(base)

\* The action chosen for a call (lib.rs:125-136).
PermAction(base, overrides, call) ==
    IF call.kind = "MethodCall"
    THEN IF IsSome(overrides[Unwrap(call.method)])
         THEN to_action(Unwrap(overrides[Unwrap(call.method)]))
         ELSE to_action(base)
    ELSE to_action(base)

\* get_call_details (lib.rs:159-165): (version, id)
get_call_details(call) ==
    CASE call.kind = "MethodCall" -> <<call.jsonrpc, call.id>>
      [] call.kind = "Notification" -> <<call.jsonrpc, None>>
      [] OTHER -> <<None, call.id>>

\* A variant of PermReject: the Failure always carries version "2.0",
\* whatever the version of the call.
PermRejectFixedVersion(call) ==
    LET d == get_call_details(call)
    IN  IF IsSome(d[2])
        THEN Some([kind |-> "Failure", jsonrpc |-> Some("2.0"), id |-> Unwrap(d[2]),
                   code |-> -1, message |-> "You are not allowed to call that method."])
        ELSE None

\* The output of a rejected call (lib.rs:140-153): id.map(|id| Failure{..}).
PermReject(call) ==
    LET d == get_call_details(call)
    IN  IF IsSome(d[2])
        THEN Some([kind |-> "Failure", jsonrpc |-> d[1], id |-> Unwrap(d[2]),
                   code |-> -1, message |-> "You are not allowed to call that method."])
        ELSE None

\* What `next` may resolve to for a call: no output, or a Success for its id.
NextOutputs(call) ==
    {None} \cup
    (IF IsSome(call.id)
     THEN {Some([kind |-> "Success", jsonrpc |-> call.jsonrpc, id |-> Unwrap(call.id),
                 result |-> "ok"])}
     ELSE {})

\* Middleware::new (lib.rs:91-103): any base policy, any override table.
PermInit ==
    /\ permBase \in Access
    /\ permissioned \in [PermMethods -> {None} \cup {Some(a) : a \in Access}]
    /\ permLog = << >>
    /\ permNextCalled = 0

\* Middleware::on_call (lib.rs:110-156) for one call.
PermOnCall(call) ==
    /\ Len(permLog) < MaxPermCalls
    /\ IF PermAction(permBase, permissioned, call) = "Next"
       THEN \E out \in NextOutputs(call) :
               /\ permNextCalled' = permNextCalled + 1
               /\ permLog' = Append(permLog, [call |-> call, chained |-> TRUE, out |-> out])
       ELSE /\ permNextCalled' = permNextCalled
            /\ permLog' = Append(permLog, [call |-> call, chained |-> FALSE,
                                           out |-> PermReject(call)])
    /\ UNCHANGED <<permBase, permissioned>>
    /\ UNCHANGED <<cacheVars, signVars, upVars, rlpVars>>


---------------------------------------------------------------------------
(***************************************************************************)
(* Response cache middleware (plugins/simple-cache/src/lib.rs)             *)
(***************************************************************************)

\* Number of calls one behaviour of SpecCache handles.
MaxCacheCalls == 3

\* The clock of SpecCache runs from 0 to MaxCacheTime seconds.
MaxCacheTime == 2

\* CacheEviction::Time(Duration::from_secs(1)), as configured in the tests.
EvictionSecs == 1

CacheIds == {1, 2}

CacheParams == {<<"xyz1">>, <<"xyz2">>}

\* Middleware.cacheable: the configured methods; every other method is not.
Cacheable == {"eth_getBlock"}

CacheCall(i, m, p) ==
    [kind |-> "MethodCall", id |-> Some(i), method |-> m, params |-> p]

CacheNotification(m, p) ==
    [kind |-> "Notification", id |-> None, method |-> m, params |-> p]

\* The calls clients make: every id and params for the cacheable method, one
\* call of a method that is not cacheable and one notification.
CacheInputs ==
    {CacheCall(i, m, p) : i \in CacheIds, m \in Cacheable, p \in CacheParams}
    \cup {CacheCall(1, "eth_sendRawTransaction", <<"xyz1">>)}
    \cup {CacheNotification("eth_getBlock", <<"xyz1">>)}

\* Method::hash (lib.rs:88-93): XxHash64 over the method name followed by
\* the serialised params.  The digest is modelled by the hashed input itself
\* (no two modelled inputs collide).
Hash(name, params) == <<name, params>>

CacheKeys == {Hash(m, p) : m \in Cacheable, p \in CacheParams}

\* Faulty variant of MethodDeadline: the deadline is the current instant.
MethodDeadlineNoWindow(now) == now

\* Method::meta (lib.rs:96-100): Deadline(Instant::now() + duration).
MethodDeadline(now) == now + EvictionSecs

\* Method::is_fresh (lib.rs:103-107): Instant::now() < deadline.
is_fresh(now, meta) == now < meta

\* Faulty variant of CacheAction: the enabled flag is not consulted.
CacheActionAlwaysOn(enabled, table, now, call) ==
    IF call.kind = "MethodCall" /\ call.method \in Cacheable
    THEN LET hash == Hash(call.method, call.params)
         IN  IF IsSome(table[hash]) /\ is_fresh(now, Unwrap(table[hash]).deadline)
             THEN [action |-> "Return", read |-> TRUE, hash |-> Some(hash),
                   meta |-> None, result |-> Unwrap(table[hash]).result]
             ELSE [action |-> "NextAndCache", read |-> TRUE, hash |-> Some(hash),
                   meta |-> Some(MethodDeadline(now)), result |-> None]
    ELSE [action |-> "Next", read |-> FALSE, hash |-> None, meta |-> None, result |-> None]

\* Faulty variant of CacheAction: an entry is served whenever it exists.
CacheActionNoExpiry(enabled, table, now, call) ==
    IF ~enabled
    THEN [action |-> "Next", read |-> FALSE, hash |-> None, meta |-> None, result |-> None]
    ELSE IF call.kind = "MethodCall" /\ call.method \in Cacheable
    THEN LET hash == Hash(call.method, call.params)
         IN  IF IsSome(table[hash])
             THEN [action |-> "Return", read |-> TRUE, hash |-> Some(hash),
                   meta |-> None, result |-> Unwrap(table[hash]).result]
             ELSE [action |-> "NextAndCache", read |-> TRUE, hash |-> Some(hash),
                   meta |-> Some(MethodDeadline(now)), result |-> None]
    ELSE [action |-> "Next", read |-> FALSE, hash |-> None, meta |-> None, result |-> None]

\* Faulty variant of CacheAction: the digest ignores the params.
CacheActionNameOnly(enabled, table, now, call) ==
    IF ~enabled
    THEN [action |-> "Next", read |-> FALSE, hash |-> None, meta |-> None, result |-> None]
    ELSE IF call.kind = "MethodCall" /\ call.method \in Cacheable
    THEN LET hash == Hash(call.method, <<"xyz1">>)
         IN  IF IsSome(table[hash]) /\ is_fresh(now, Unwrap(table[hash]).deadline)
             THEN [action |-> "Return", read |-> TRUE, hash |-> Some(hash),
                   meta |-> None, result |-> Unwrap(table[hash]).result]
             ELSE [action |-> "NextAndCache", read |-> TRUE, hash |-> Some(hash),
                   meta |-> Some(MethodDeadline(now)), result |-> None]
    ELSE [action |-> "Next", read |-> FALSE, hash |-> None, meta |-> None, result |-> None]

\* The Action chosen by on_call (lib.rs:158-186).  `read` tells whether
\* self.cached was read; `meta` is method.meta(), computed when the miss is
\* detected; `result` is the cached output of a fresh entry.
CacheAction(enabled, table, now, call) ==
    IF ~enabled
    THEN [action |-> "Next", read |-> FALSE, hash |-> None, meta |-> None, result |-> None]
    ELSE IF call.kind = "MethodCall" /\ call.method \in Cacheable
    THEN LET hash == Hash(call.method, call.params)
         IN  IF IsSome(table[hash]) /\ is_fresh(now, Unwrap(table[hash]).deadline)
             THEN [action |-> "Return", read |-> TRUE, hash |-> Some(hash),
                   meta |-> None, result |-> Unwrap(table[hash]).result]
             ELSE [action |-> "NextAndCache", read |-> TRUE, hash |-> Some(hash),
                   meta |-> Some(MethodDeadline(now)), result |-> None]
    ELSE [action |-> "Next", read |-> FALSE, hash |-> None, meta |-> None, result |-> None]

\* What next(call, meta) may resolve to: the upstream's Success for the
\* call's id with the value upstream holds then, a Failure for the call's
\* id, or no output.
CacheResults == {"0x10", "0x11"}

CacheFailure == "error"

CacheNextOutputs(call) ==
    {None} \cup
    (IF IsSome(call.id)
     THEN {Some([kind |-> "Success", id |-> Unwrap(call.id), result |-> r]) :
               r \in CacheResults}
          \cup {Some([kind |-> "Failure", id |-> Unwrap(call.id), result |-> CacheFailure])}
     ELSE {})

\* Middleware::new (lib.rs:128-141): enabled or not, nothing cached.
CacheInit ==
    /\ cacheEnabled \in BOOLEAN
    /\ cached = [k \in CacheKeys |-> None]
    /\ cacheNow = 0
    /\ cacheCalls = << >>

\* Some earlier call for the same digest is still waiting for next.
CacheInFlight(hash) ==
    \E j \in 1..Len(cacheCalls) :
        cacheCalls[j].st = "inflight" /\ cacheCalls[j].hash = hash

\* Middleware::on_call (lib.rs:152-210) up to the point where the returned
\* future is built: Return resolves at once, Next and NextAndCache have
\* invoked next and wait for it.
CacheOnCall(call) ==
    /\ Len(cacheCalls) < MaxCacheCalls
    /\ LET a == CacheAction(cacheEnabled, cached, cacheNow, call)
       IN  cacheCalls' = Append(cacheCalls,
               [call |-> call, action |-> a.action, read |-> a.read, hash |-> a.hash,
                meta |-> a.meta, at |-> cacheNow,
                seen |-> IF a.read THEN cached[Unwrap(a.hash)] ELSE None,
                overlap |-> a.read /\ CacheInFlight(a.hash),
                st |-> IF a.action = "Return" THEN "done" ELSE "inflight",
                out |-> a.result])
    /\ UNCHANGED <<cacheEnabled, cached, cacheNow>>
    /\ UNCHANGED <<permVars, signVars, upVars, rlpVars>>

\* A variant of CacheResolve: only a Success is installed.
CacheResolveSuccessOnly(i) ==
    /\ i \in 1..Len(cacheCalls)
    /\ cacheCalls[i].st = "inflight"
    /\ \E out \in CacheNextOutputs(cacheCalls[i].call) :
          /\ cacheCalls' = [cacheCalls EXCEPT ![i].st = "done", ![i].out = out]
          /\ cached' =
                IF cacheCalls[i].action = "NextAndCache"
                   /\ IsSome(out) /\ Unwrap(out).kind = "Success"
                THEN [cached EXCEPT ![Unwrap(cacheCalls[i].hash)] =
                         Some([result |-> out, deadline |-> Unwrap(cacheCalls[i].meta)])]
                ELSE cached
    /\ UNCHANGED <<cacheEnabled, cacheNow>>
    /\ UNCHANGED <<permVars, signVars, upVars, rlpVars>>

\* A variant of CacheResolve: the result is installed only when the digest
\* has no entry yet.
CacheResolveFirstWins(i) ==
    /\ i \in 1..Len(cacheCalls)
    /\ cacheCalls[i].st = "inflight"
    /\ \E out \in CacheNextOutputs(cacheCalls[i].call) :
          /\ cacheCalls' = [cacheCalls EXCEPT ![i].st = "done", ![i].out = out]
          /\ cached' =
                IF cacheCalls[i].action = "NextAndCache"
                   /\ cached[Unwrap(cacheCalls[i].hash)] = None
                THEN [cached EXCEPT ![Unwrap(cacheCalls[i].hash)] =
                         Some([result |-> out, deadline |-> Unwrap(cacheCalls[i].meta)])]
                ELSE cached
    /\ UNCHANGED <<cacheEnabled, cacheNow>>
    /\ UNCHANGED <<permVars, signVars, upVars, rlpVars>>

\* A variant of CacheResolve: the deadline is computed when next
\* resolves.
CacheResolveDeadlineAtInstall(i) ==
    /\ i \in 1..Len(cacheCalls)
    /\ cacheCalls[i].st = "inflight"
    /\ \E out \in CacheNextOutputs(cacheCalls[i].call) :
          /\ cacheCalls' = [cacheCalls EXCEPT ![i].st = "done", ![i].out = out]
          /\ cached' =
                IF cacheCalls[i].action = "NextAndCache"
                THEN [cached EXCEPT ![Unwrap(cacheCalls[i].hash)] =
                         Some([result |-> out, deadline |-> MethodDeadline(cacheNow)])]
                ELSE cached
    /\ UNCHANGED <<cacheEnabled, cacheNow>>
    /\ UNCHANGED <<permVars, signVars, upVars, rlpVars>>

\* The future of next resolves (lib.rs:188-204): NextAndCache installs
\* (result, method_meta) under its digest, then the result is returned.
CacheResolve(i) ==
    /\ i \in 1..Len(cacheCalls)
    /\ cacheCalls[i].st = "inflight"
    /\ \E out \in CacheNextOutputs(cacheCalls[i].call) :
          /\ cacheCalls' = [cacheCalls EXCEPT ![i].st = "done", ![i].out = out]
          /\ cached' =
                IF cacheCalls[i].action = "NextAndCache"
                THEN [cached EXCEPT ![Unwrap(cacheCalls[i].hash)] =
                         Some([result |-> out, deadline |-> Unwrap(cacheCalls[i].meta)])]
                ELSE cached
    /\ UNCHANGED <<cacheEnabled, cacheNow>>
    /\ UNCHANGED <<permVars, signVars, upVars, rlpVars>>

\* Time passes.
CacheTick ==
    /\ cacheNow < MaxCacheTime
    /\ cacheNow' = cacheNow + 1
    /\ UNCHANGED <<cacheEnabled, cached, cacheCalls>>
    /\ UNCHANGED <<permVars, signVars, upVars, rlpVars>>

---------------------------------------------------------------------------
(***************************************************************************)
(* Signing middleware (ethereum-proxy/plugins/accounts/src/lib.rs) with    *)
(* the upstream closure of ethereum-proxy/src/main.rs                      *)
(***************************************************************************)

\* Number of calls one behaviour of SpecSign handles.
MaxSignCalls == 2

\* Middleware.id starts at 10_000 (lib.rs:77).
FirstInternalId == 10000

\* The calls clients make: transactions to sign, eth_accounts, a plain call
\* and a notification.
SignInputs ==
    {MethodCall(Some("2.0"), 1, "eth_sendTransaction"),
     MethodCall(Some("2.0"), 2, "parity_postTransaction"),
     MethodCall(Some("2.0"), 1, "eth_accounts"),
     MethodCall(Some("2.0"), 1, "eth_call"),
     Notification(Some("2.0"), "eth_sendTransaction")}

\* How on_call treats a call (lib.rs:107-134).
SignKind(call) ==
    IF call.kind = "MethodCall"
       /\ Unwrap(call.method) \in {"eth_sendTransaction", "parity_postTransaction"}
    THEN "sign"
    ELSE IF call.kind = "MethodCall" /\ Unwrap(call.method) = "eth_accounts"
    THEN "accounts"
    ELSE "plain"

\* What a request to upstream is for: the composed transaction, the chain
\* id or the submission of the signed transaction.
SignRoles == {"compose", "chain", "raw"}

\* A request handed to the upstream closure: the call that caused it, what
\* it is for, and the id, method and params array of the rpc::MethodCall.
UpRequest(owner, role, id, method, params) ==
    [owner |-> owner, role |-> role, id |-> id, method |-> method, params |-> params]

\* What the upstream closure (main.rs:137-144) may resolve to for a request:
\* no output (transport error or unparsable frame), a Failure, or a Success
\* whose result is a transaction from the local address, a transaction from
\* another address or a value of the wrong shape (compose); a chain id or a
\* value of the wrong shape (eth_chainId); a transaction hash (raw).
SignPayloads(role) ==
    CASE role = "compose" -> {"tx_from_local", "tx_from_other", "malformed"}
      [] role = "chain" -> {"chain_id", "malformed"}
      [] OTHER -> {"tx_hash"}

SignUpOutputs(req) ==
    {None, Some([kind |-> "Failure", id |-> req.id, code |-> -32000,
                 payload |-> "upstream_error"])}
    \cup {Some([kind |-> "Success", id |-> req.id, code |-> 0, payload |-> x]) :
              x \in SignPayloads(req.role)}

\* err(id, msg) (lib.rs:164-174): a local Failure with code 1.
SignErr(id, msg) == Some([kind |-> "Failure", id |-> id, code |-> 1, payload |-> msg])

\* A variant of SignOutcome: the test of the from address is inverted.
SignOutcomeFromInverted(id, request, chain) ==
    IF request = None THEN [type |-> "panic", out |-> None]
    ELSE IF Unwrap(request).kind # "Success" THEN [type |-> "output", out |-> request]
    ELSE IF Unwrap(request).payload = "malformed"
    THEN [type |-> "output", out |-> SignErr(id, "Unable to construct transaction")]
    ELSE IF chain = None THEN [type |-> "panic", out |-> None]
    ELSE IF Unwrap(chain).kind # "Success" THEN [type |-> "output", out |-> chain]
    ELSE IF Unwrap(chain).payload = "malformed"
    THEN [type |-> "output", out |-> SignErr(id, "Unable to construct transaction")]
    ELSE IF Unwrap(request).payload = "tx_from_local"
    THEN [type |-> "output", out |-> SignErr(id, "Invalid from address")]
    ELSE [type |-> "raw", out |-> None]

\* The outcome of the signing path once the compose and the eth_chainId
\* futures have both resolved (lib.rs:175-232): "panic" for expect(PROOF) on
\* no output, "output" with the future's result, or "raw" when the signed
\* transaction is to be submitted.
SignOutcome(id, request, chain) ==
    IF request = None THEN [type |-> "panic", out |-> None]
    ELSE IF Unwrap(request).kind # "Success" THEN [type |-> "output", out |-> request]
    ELSE IF Unwrap(request).payload = "malformed"
    THEN [type |-> "output", out |-> SignErr(id, "Unable to construct transaction")]
    ELSE IF chain = None THEN [type |-> "panic", out |-> None]
    ELSE IF Unwrap(chain).kind # "Success" THEN [type |-> "output", out |-> chain]
    ELSE IF Unwrap(chain).payload = "malformed"
    THEN [type |-> "output", out |-> SignErr(id, "Unable to construct transaction")]
    ELSE IF Unwrap(request).payload # "tx_from_local"
    THEN [type |-> "output", out |-> SignErr(id, "Invalid from address")]
    ELSE [type |-> "raw", out |-> None]

\* secret.public().address() (lib.rs:100), serialised as Bytes.
LocalAddress == "0xlocal"

\* rpc::Value of a result: an Array of values or a value that is no array.
ValueArray(items) == [type |-> "Array", items |-> items]

ValueString(s) == [type |-> "String", items |-> <<s>>]

\* What next may resolve to for a call that is passed on: no output, a
\* Failure, or a Success whose result is a list of accounts (without the
\* local address, with it, empty) or a value that is no array.  Version
\* and id are upstream's.
SignNextResults ==
    {ValueArray(l) : l \in {<< >>, <<"0xother">>, <<"0xother", LocalAddress>>}}
    \cup {ValueString("0x1")}

SignNextOutputs ==
    {None}
    \cup {Some([kind |-> "Failure", jsonrpc |-> v, id |-> i, code |-> -32000]) :
              v \in Versions, i \in {1, 7}}
    \cup {Some([kind |-> "Success", jsonrpc |-> v, id |-> i, result |-> r]) :
              v \in Versions, i \in {1, 7}, r \in SignNextResults}

\* A variant of prepend_account: the address is inserted unless the list
\* has it.
PrependAccountIfAbsent(address, output) ==
    IF /\ IsSome(output)
       /\ Unwrap(output).kind = "Success"
       /\ Unwrap(output).result.type = "Array"
       /\ \A k \in 1..Len(Unwrap(output).result.items) :
              Unwrap(output).result.items[k] # address
    THEN Some([Unwrap(output) EXCEPT !.result.items = <<address>> \o @])
    ELSE output

\* The closure mapped over next's future in the eth_accounts arm
\* (lib.rs:121-130): vec.insert(0, address) for a Success with an Array.
prepend_account(address, output) ==
    IF /\ IsSome(output)
       /\ Unwrap(output).kind = "Success"
       /\ Unwrap(output).result.type = "Array"
    THEN Some([Unwrap(output) EXCEPT !.result.items = <<address>> \o @])
    ELSE output

\* A variant of ReceiverResolved: the receiver resolves only when the
\* holder got as far as submitting the signed transaction.
ReceiverResolvedOnSubmitOnly(j) ==
    signCalls[j].pc = "rawSent" \/ (signCalls[j].pc = "done" /\ IsSome(signCalls[j].rawOut))

\* The sender of call j's completion channel has fired or is gone, so the
\* receiver taken by j's successor resolves.
ReceiverResolved(j) == signCalls[j].tx \in {"sent", "dropped"}

\* Middleware::new (lib.rs:58-80)
SignInit ==
    /\ signSecret \in BOOLEAN
    /\ signId = FirstInternalId
    /\ signLock = None
    /\ signCalls = << >>
    /\ signUp = {}
    /\ signSent = << >>

\* on_call for a call that is not rewritten (lib.rs:96-99, 119-133): next is
\* invoked before on_call returns.
SignPassThrough(call) ==
    /\ Len(signCalls) < MaxSignCalls
    /\ ~signSecret \/ SignKind(call) # "sign"
    /\ signCalls' = Append(signCalls,
          [call |-> call, kind |-> IF signSecret THEN SignKind(call) ELSE "plain",
           pc |-> "forwarded", chained |-> TRUE, prev |-> None,
           composeId |-> None, chainId |-> None,
           composeOut |-> None, chainOut |-> None, rawOut |-> None,
           fwd |-> Some(call), nextOut |-> None,
           tx |-> "none", out |-> None])
    /\ UNCHANGED <<signSecret, signId, signLock, signUp, signSent>>
    /\ UNCHANGED <<permVars, cacheVars, upVars, rlpVars>>

\* The future of next resolves for a call that was passed on (lib.rs:98,
\* 121-133): the eth_accounts arm maps the output, the others return it.
SignPassResolve(i) ==
    /\ i \in 1..Len(signCalls)
    /\ signCalls[i].pc = "forwarded"
    /\ \E output \in SignNextOutputs :
          signCalls' = [signCalls EXCEPT
              ![i].pc = "done",
              ![i].nextOut = Some(output),
              ![i].out = Some(IF signCalls[i].kind = "accounts"
                              THEN prepend_account(LocalAddress, output)
                              ELSE output)]
    /\ UNCHANGED <<signSecret, signId, signLock, signUp, signSent>>
    /\ UNCHANGED <<permVars, cacheVars, upVars, rlpVars>>

\* on_call for eth_sendTransaction / parity_postTransaction (lib.rs:107-157):
\* the call is renamed and given an internal id, the lock is swapped, the
\* eth_chainId request is sent, and the compose request is sent at once when
\* there was no previous receiver.
SignRewrite(limit, call) ==
    /\ Len(signCalls) < limit
    /\ signSecret /\ SignKind(call) = "sign"
    /\ LET me == Len(signCalls) + 1
           compose == UpRequest(me, "compose", signId, "parity_composeTransaction",
                                <<"transaction_request">>)
           chain == UpRequest(me, "chain", signId + 1, "eth_chainId", << >>)
       IN  /\ signId' = signId + 2
           /\ signLock' = Some(me)
           /\ signCalls' = Append(signCalls,
                 [call |-> call, kind |-> "sign",
                  pc |-> IF signLock = None THEN "composing" ELSE "waitPrev",
                  chained |-> FALSE, prev |-> signLock,
                  composeId |-> Some(signId), chainId |-> Some(signId + 1),
                  composeOut |-> None, chainOut |-> None, rawOut |-> None,
                  fwd |-> None, nextOut |-> None,
                  tx |-> "held", out |-> None])
           /\ signUp' = signUp \cup {chain} \cup (IF signLock = None THEN {compose} ELSE {})
           /\ signSent' = signSent \o <<chain>> \o (IF signLock = None THEN <<compose>> ELSE << >>)
    /\ UNCHANGED signSecret
    /\ UNCHANGED <<permVars, cacheVars, upVars, rlpVars>>

SignOnCall(call) == SignRewrite(MaxSignCalls, call)

\* Number of rewritten calls in one behaviour of SpecSignDrop: a running
\* call, one that waits for it and one that waits for the waiting one.
CancelScenarioCalls == MaxSignCalls + 1

\* The calls of SpecSignDrop: transactions to sign.
SignDropInputs == {MethodCall(Some("2.0"), 1, "eth_sendTransaction")}

\* The future on_call returned for a rewritten call (lib.rs:159-238) is
\* dropped before it has resolved: the receiver of the previous holder, the
\* futures of the requests already made and the completion sender, if it
\* has not fired yet, are dropped with it.  Requests handed to the
\* upstream closure stay with upstream.
SignCancel(i) ==
    /\ i \in 1..Len(signCalls)
    /\ signCalls[i].kind = "sign"
    /\ signCalls[i].pc \in {"waitPrev", "composing", "rawSent"}
    /\ signCalls' = [signCalls EXCEPT
          ![i].pc = "cancelled",
          ![i].tx = IF @ = "held" THEN "dropped" ELSE @]
    /\ UNCHANGED <<signSecret, signId, signLock, signUp, signSent>>
    /\ UNCHANGED <<permVars, cacheVars, upVars, rlpVars>>

\* prev.then(move |_| upstream2(call)) (lib.rs:154-157): the previous
\* receiver resolved, the compose request is sent.
SignComposeAfterPrev(i) ==
    /\ i \in 1..Len(signCalls)
    /\ signCalls[i].pc = "waitPrev"
    /\ ReceiverResolved(Unwrap(signCalls[i].prev))
    /\ LET compose == UpRequest(i, "compose", Unwrap(signCalls[i].composeId),
                                "parity_composeTransaction", <<"transaction_request">>)
       IN  /\ signUp' = signUp \cup {compose}
           /\ signSent' = Append(signSent, compose)
    /\ signCalls' = [signCalls EXCEPT ![i].pc = "composing"]
    /\ UNCHANGED <<signSecret, signId, signLock>>
    /\ UNCHANGED <<permVars, cacheVars, upVars, rlpVars>>

\* The upstream closure's future for a request resolves.
SignUpstreamAnswer(i, role) ==
    /\ \E req \in signUp :
          /\ req.owner = i /\ req.role = role
          /\ signUp' = signUp \ {req}
          /\ \E out \in SignUpOutputs(req) :
                signCalls' =
                    CASE role = "compose" -> [signCalls EXCEPT ![i].composeOut = Some(out)]
                      [] role = "chain" -> [signCalls EXCEPT ![i].chainOut = Some(out)]
                      [] OTHER -> [signCalls EXCEPT ![i].rawOut = Some(out)]
    /\ UNCHANGED <<signSecret, signId, signLock, signSent>>
    /\ UNCHANGED <<permVars, cacheVars, upVars, rlpVars>>

\* The async block runs once both awaited futures have resolved
\* (lib.rs:159-237): it panics, produces an output, or submits
\* eth_sendRawTransaction under the original id; when the block is over the
\* completion sender fires (or, on a panic, is dropped).
SignProceed(i) ==
    /\ i \in 1..Len(signCalls)
    /\ signCalls[i].pc = "composing"
    /\ IsSome(signCalls[i].composeOut) /\ IsSome(signCalls[i].chainOut)
    /\ LET id == Unwrap(signCalls[i].call.id)
           o == SignOutcome(id, Unwrap(signCalls[i].composeOut), Unwrap(signCalls[i].chainOut))
           raw == UpRequest(i, "raw", id, "eth_sendRawTransaction", <<"signed_rlp">>)
       IN  CASE o.type = "panic" ->
                  /\ signCalls' = [signCalls EXCEPT ![i].pc = "panicked", ![i].tx = "dropped"]
                  /\ UNCHANGED <<signUp, signSent>>
             [] o.type = "output" ->
                  /\ signCalls' = [signCalls EXCEPT ![i].pc = "done", ![i].tx = "sent",
                                                    ![i].out = Some(o.out)]
                  /\ UNCHANGED <<signUp, signSent>>
             [] OTHER ->
                  /\ signCalls' = [signCalls EXCEPT ![i].pc = "rawSent", ![i].tx = "sent"]
                  /\ signUp' = signUp \cup {raw}
                  /\ signSent' = Append(signSent, raw)
    /\ UNCHANGED <<signSecret, signId, signLock>>
    /\ UNCHANGED <<permVars, cacheVars, upVars, rlpVars>>

\* The eth_sendRawTransaction future resolves and with it the call.
SignFinish(i) ==
    /\ i \in 1..Len(signCalls)
    /\ signCalls[i].pc = "rawSent"
    /\ IsSome(signCalls[i].rawOut)
    /\ signCalls' = [signCalls EXCEPT ![i].pc = "done", ![i].out = Some(Unwrap(signCalls[i].rawOut))]
    /\ UNCHANGED <<signSecret, signId, signLock, signUp, signSent>>
    /\ UNCHANGED <<permVars, cacheVars, upVars, rlpVars>>

\* The methods the permissioning table of the ethereum proxy may name: those
\* of the clients' calls and those of the requests the signing middleware
\* makes.
PipeMethods ==
    {Unwrap(call.method) : call \in SignInputs}
    \cup {"parity_composeTransaction", "eth_chainId", "eth_sendRawTransaction"}

\* The configured policies: either base policy, and no override or an
\* override for one method.
PipePolicies ==
    {[m \in PipeMethods |-> None]}
    \cup {[m \in PipeMethods |-> IF m = x THEN Some(a) ELSE None] :
              x \in PipeMethods, a \in Access}

\* The handler's middleware tuple (generic-proxy lib.rs:33-53):
\* permissioning comes first and answers a call it rejects itself.
PipeReject(call) ==
    /\ Len(signCalls) + Len(permLog) < MaxSignCalls
    /\ PermAction(permBase, permissioned, call) = "Reject"
    /\ permLog' = Append(permLog, [call |-> call, chained |-> FALSE,
                                   out |-> PermReject(call)])
    /\ UNCHANGED <<permBase, permissioned, permNextCalled>>
    /\ UNCHANGED <<cacheVars, signVars, upVars, rlpVars>>

\* A call permissioning lets through goes on to the cache (disabled here:
\* it passes the call on) and to the signing middleware.
PipePass(call) ==
    /\ Len(signCalls) + Len(permLog) < MaxSignCalls
    /\ PermAction(permBase, permissioned, call) = "Next"
    /\ SignPassThrough(call) \/ SignOnCall(call)

---------------------------------------------------------------------------
(***************************************************************************)
(* Upstream correlation: plugins/upstream/src/{lib,shared,helpers}.rs and  *)
(* plugins/ws-upstream/src/lib.rs (plugins/ipc-upstream/src/lib.rs has the *)
(* same logic)                                                             *)
(***************************************************************************)

\* Number of client calls one behaviour of SpecUp handles.
MaxUpCalls == 2

\* Number of notification frames upstream emits in one behaviour of SpecUp.
MaxNotifs == 1

\* Number of notification frames upstream emits in one behaviour of
\* SpecUpPush: two frames, so that their order shows.
PushScenarioNotifs == MaxNotifs + 1

\* Number of client calls one behaviour of SpecUpDrop handles: two
\* subscribes of one session and a call of another.
DropScenarioCalls == MaxUpCalls + 1

\* Client sessions (one pubsub::Session per WebSocket connection).
Sessions == {1, 2}

\* Request ids clients choose.
UpIds == {1, 2}

\* The id of the automatic unsubscribe call (ws-upstream lib.rs:289).
AutoUnsubscribeId == 1

\* The configured pub-sub descriptor (upstream lib.rs:47-54).
Subscription ==
    [subscribe |-> "eth_subscribe", unsubscribe |-> "eth_unsubscribe",
     name |-> "eth_subscription"]

\* The configured list of pub-sub descriptors (config::Param::PubSubMethods):
\* the second one names as its unsubscribe method the subscribe method of
\* the first.
PubSubMethods ==
    {Subscription,
     [subscribe |-> "parity_subscribe", unsubscribe |-> "eth_subscribe",
      name |-> "parity_subscription"]}

\* Middleware::new (upstream lib.rs:94-110): the key sets of the two maps.
subscribe_methods == {d.subscribe : d \in PubSubMethods}

unsubscribe_methods == {d.unsubscribe : d \in PubSubMethods}

\* The method of a Call::Invalid, which has none.
NoMethod == "-"

\* helpers::get_method_name (helpers.rs:44-50)
get_method_name(call) ==
    IF call.method = NoMethod THEN None ELSE Some(call.method)

\* A variant of route: the unsubscribe map is looked up first.
RouteUnsubscribeFirst(call) ==
    LET method == get_method_name(call)
    IN  IF IsSome(method) /\ Unwrap(method) \in unsubscribe_methods THEN "unsubscribe"
        ELSE IF IsSome(method) /\ Unwrap(method) \in subscribe_methods THEN "subscribe"
        ELSE "send"

\* The transport method on_call picks (upstream lib.rs:128-162): the
\* subscribe map is looked up first, the unsubscribe map only when that
\* finds nothing, and send is what is left, also without a method name.
route(call) ==
    LET method == get_method_name(call)
    IN  IF IsSome(method) /\ Unwrap(method) \in subscribe_methods THEN "subscribe"
        ELSE IF IsSome(method) /\ Unwrap(method) \in unsubscribe_methods THEN "unsubscribe"
        ELSE "send"

\* Result values: 0 is the result of a regular call; 1, 2, ... are the
\* subscription ids upstream issues, each once and none equal to a regular
\* result.
RegularResult == 0

SubIds == 0..DropScenarioCalls

\* The thread that runs a handler: the reader task or any other.
Reader == "reader"

Other == "other"

\* PendingKind and Pending (shared.rs:33-43): the caller is the client call
\* that awaits the receiver, 0 for a spawned automatic unsubscribe.
Regular(caller) == [caller |-> caller, kind |-> "Regular", session |-> 0]

Subscribe(caller, session) == [caller |-> caller, kind |-> "Subscribe", session |-> session]

\* A request frame as serialised by write_and_wait (lib.rs:224), with the
\* call it was written for (0 for an automatic unsubscribe).
Frame(id, method, params, caller) ==
    [id |-> id, method |-> method, params |-> params, caller |-> caller]

\* The state the handlers work on.
World ==
    [pending |-> upPending, subs |-> upSubs, wire |-> upWire, calls |-> upCalls,
     open |-> sessOpen, dropped |-> sessDropped, hooks |-> sessHooks,
     runs |-> hookRuns, unsubd |-> unsubscribed, stuck |-> upStuck,
     answered |-> upAnswered, sink |-> sessSink, connected |-> upConnected]

Commit(w) ==
    /\ upPending' = w.pending
    /\ upSubs' = w.subs
    /\ upWire' = w.wire
    /\ upCalls' = w.calls
    /\ sessOpen' = w.open
    /\ sessDropped' = w.dropped
    /\ sessHooks' = w.hooks
    /\ hookRuns' = w.runs
    /\ unsubscribed' = w.unsubd
    /\ upStuck' = w.stuck
    /\ upAnswered' = w.answered
    /\ sessSink' = w.sink

\* Strong references to a session: its open connection and the pending
\* subscribe entries that hold an Arc<Session>.
LastRef(w, sess) ==
    /\ ~w.open[sess]
    /\ ~w.dropped[sess]
    /\ \A i \in UpIds :
          ~(IsSome(w.pending[i]) /\ Unwrap(w.pending[i]).kind = "Subscribe"
            /\ Unwrap(w.pending[i]).session = sess)

\* Shared::remove_subscription (shared.rs:97-100)
remove_subscription(w, s) ==
    [w EXCEPT !.subs[s] = None, !.unsubd = @ \cup {s}]

\* The receiver of a replaced sender resolves as cancelled
\* (lib.rs:232-234, upstream lib.rs:143-161).
CancelCaller(w, entry) ==
    IF entry.caller = 0 THEN w
    ELSE [w EXCEPT !.calls[entry.caller].st = "cancelled"]

\* Session::drop inside add_pending's insert statement: the replaced entry
\* is dropped before the guard of Shared.pending; the first hook removes its
\* subscription and then waits for Shared.pending in add_pending.
DropUnderLock(w, thread, sess) ==
    LET w1 == [w EXCEPT !.dropped[sess] = TRUE, !.hooks[sess] = << >>]
    IN  IF w.hooks[sess] = << >> THEN w1
        ELSE LET s == Head(w.hooks[sess])
             IN  [remove_subscription(w1, s) EXCEPT !.runs[s] = @ + 1, !.stuck = thread]

\* A variant of add_pending: an id that has an entry keeps it, and the new
\* sender is dropped.
AddPendingKeepingEarlier(w, thread, id, entry) ==
    IF w.stuck # "none" THEN w
    ELSE IF w.pending[id] = None THEN [w EXCEPT !.pending[id] = Some(entry)]
    ELSE CancelCaller(w, entry)

\* Shared::add_pending for Some(id) (shared.rs:67-77): insert replaces the
\* entry stored under the id, and the replaced sender and kind are dropped.
add_pending(w, thread, id, entry) ==
    IF w.stuck # "none" THEN w
    ELSE LET old == w.pending[id]
             w1 == [w EXCEPT !.pending[id] = Some(entry)]
         IN  IF old = None THEN w1
             ELSE LET w2 == CancelCaller(w1, Unwrap(old))
                  IN  IF Unwrap(old).kind = "Subscribe" /\ LastRef(w2, Unwrap(old).session)
                      THEN DropUnderLock(w2, thread, Unwrap(old).session)
                      ELSE w2

\* The requests upstream has received and not answered that carry the id of
\* a frame about to be written.
SameIdInFlight(w, frame) ==
    {k \in 1..Len(w.wire) : k \notin w.answered /\ w.wire[k].id = frame.id}

\* History: a call is marked once a request with its id was in flight
\* upstream together with its own.
MarkClash(w, frame) ==
    LET callers == {w.wire[k].caller : k \in SameIdInFlight(w, frame)}
                   \cup (IF SameIdInFlight(w, frame) # {} THEN {frame.caller} ELSE {})
    IN  [w EXCEPT !.calls = [c \in 1..Len(w.calls) |->
                               IF c \in callers THEN [w.calls[c] EXCEPT !.clash = TRUE]
                               ELSE w.calls[c]]]

\* The future of a call resolves with an error at once: subscribe without a
\* session (lib.rs:266-273), or write_sender has no receiver any more
\* (lib.rs:225-230).
FailCaller(w, caller) ==
    IF caller = 0 THEN w
    ELSE [w EXCEPT !.calls[caller].st = "err", !.calls[caller].frame = 0]

\* A variant of send: the frame is handed to the writer while the entry is
\* not in the table.
SendUnregistered(w, thread, frame, entry) ==
    IF ~w.connected THEN FailCaller(w, frame.caller)
    ELSE [w EXCEPT !.wire = Append(@, frame)]

\* WebSocket::send (lib.rs:248-258) with write_and_wait (lib.rs:219-237):
\* the entry is added and the frame is given to write_sender before the
\* future is returned.
send(w, thread, frame, entry) ==
    LET w1 == add_pending(MarkClash(w, frame), thread, frame.id, entry)
    IN  IF w1.stuck # "none" THEN w1
        ELSE IF ~w1.connected THEN FailCaller(w1, frame.caller)
        ELSE [w1 EXCEPT !.wire = Append(@, frame)]

\* A parameter that SubscriptionId::parse_value rejects (neither a number
\* nor a string).
NotAnId == -2

\* helpers::get_unsubscribe_id (helpers.rs:62-79): the first element of a
\* non-empty params array, parsed as a subscription id.
get_unsubscribe_id(frame) ==
    IF frame.params # << >> /\ frame.params[1] # NotAnId
    THEN Some(frame.params[1])
    ELSE None

\* A variant of unsubscribe: the on-drop hooks for the id are taken off
\* every session as well.
UnsubscribeDeregistering(w, thread, frame, entry) ==
    LET id == get_unsubscribe_id(frame)
        w1 == IF IsSome(id)
              THEN [remove_subscription(w, Unwrap(id)) EXCEPT
                       !.hooks = [x \in Sessions |->
                                    SelectSeq(w.hooks[x], LAMBDA h : h # Unwrap(id))]]
              ELSE w
    IN  send(w1, thread, frame, entry)

\* A variant of unsubscribe: the call is sent and the table is left alone.
UnsubscribeKeepingEntry(w, thread, frame, entry) ==
    send(w, thread, frame, entry)

\* WebSocket::unsubscribe (lib.rs:310-320): the entry of the id the call
\* names is removed, then the call is sent as a regular one.
unsubscribe(w, thread, frame, entry) ==
    send(IF IsSome(get_unsubscribe_id(frame))
         THEN remove_subscription(w, Unwrap(get_unsubscribe_id(frame)))
         ELSE w,
         thread, frame, entry)

\* The unsubscribe thunk built by WebSocket::subscribe (lib.rs:285-302).
UnsubscribeThunk(w, thread, s) ==
    unsubscribe([w EXCEPT !.runs[s] = @ + 1], thread,
                Frame(AutoUnsubscribeId, Subscription.unsubscribe, <<s>>, 0),
                Regular(0))

\* The on-drop hooks of a session run in the order they were registered; a
\* hook that never returns keeps the later ones from running.
RECURSIVE RunHooks(_, _, _)
RunHooks(w, thread, hs) ==
    IF hs = << >> THEN w
    ELSE LET w1 == UnsubscribeThunk(w, thread, Head(hs))
         IN  IF w1.stuck # "none" THEN w1 ELSE RunHooks(w1, thread, Tail(hs))

\* Session::drop outside Shared.pending.
SessionDrop(w, thread, sess) ==
    RunHooks([w EXCEPT !.dropped[sess] = TRUE, !.hooks[sess] = << >>], thread, w.hooks[sess])

\* An Arc<Session> goes away; the session is dropped with the last one.
ReleaseSession(w, thread, sess) ==
    IF LastRef(w, sess) THEN SessionDrop(w, thread, sess) ELSE w

\* Shared::add_subscription (shared.rs:87-94); the Arc it was given is
\* dropped when it returns.
add_subscription(w, thread, s, sess) ==
    ReleaseSession([w EXCEPT !.hooks[sess] = Append(@, s),
                             !.subs[s] = Some(sess),
                             !.unsubd = @ \ {s}],
                   thread, sess)

\* A Failure frame carries no result.
ErrorResult == -1

\* A caller without a session (a transport without pub-sub support).
NoSession == 0

\* A variant of subscribe: the session is not looked at before the call is
\* sent; without a session the call goes upstream as a regular one.
SubscribeUnchecked(w, thread, frame, sess) ==
    send(w, thread, frame,
         IF sess = NoSession THEN Regular(frame.caller) ELSE Subscribe(frame.caller, sess))

\* WebSocket::subscribe (lib.rs:260-308): an error at once without a
\* session, else the entry keeps the session and the unsubscribe thunk.
subscribe(w, thread, frame, sess) ==
    IF sess = NoSession THEN FailCaller(w, frame.caller)
    ELSE send(w, thread, frame, Subscribe(frame.caller, sess))

\* The calls clients make: a regular call and a subscribe under either id,
\* an unsubscribe of subscription 1, without params, and with a first
\* param that is no subscription id, and an invalid call.
UpInputs ==
    {[id |-> i, method |-> m, params |-> << >>] :
        i \in UpIds, m \in {"eth_blockNumber", Subscription.subscribe}}
    \cup {[id |-> 2, method |-> Subscription.unsubscribe, params |-> p] :
              p \in {<<1>>, << >>, <<NotAnId>>}}
    \cup {[id |-> 1, method |-> NoMethod, params |-> <<1>>]}

\* One record per client call: the frame written for it (0 if none), the
\* state of its future, the response frame it resolved with, the mark of
\* MarkClash, and whether on_call invoked next (it never does: _next is
\* unused, upstream lib.rs:120).
UpCall(sess, call, frame, st) ==
    [sess |-> sess, id |-> call.id, method |-> call.method, params |-> call.params,
     frame |-> frame, st |-> st, resp |-> None, clash |-> FALSE, chained |-> FALSE]

\* Shared::default(), nothing sent, every session connected
\* (ws-upstream lib.rs:160-161, 210-216).
UpInit ==
    /\ upPending = [i \in UpIds |-> None]
    /\ upSubs = [s \in SubIds |-> None]
    /\ upWire = << >>
    /\ upAnswered = {}
    /\ upSubCounter = 0
    /\ upCalls = << >>
    /\ sessOpen = [x \in Sessions |-> TRUE]
    /\ sessDropped = [x \in Sessions |-> FALSE]
    /\ sessHooks = [x \in Sessions |-> << >>]
    /\ hookRuns = [s \in SubIds |-> 0]
    /\ unsubscribed = {}
    /\ upLastNotif = None
    /\ upStuck = "none"
    /\ upConnected = TRUE
    /\ upEmitted = << >>
    /\ sessSink = [x \in Sessions |-> << >>]
    /\ clientGot = [x \in Sessions |-> << >>]

\* upstream::Middleware::on_call (upstream lib.rs:120-163) over the
\* WebSocket transport: a subscribe method goes to WebSocket::subscribe
\* (lib.rs:260-308), an unsubscribe method to WebSocket::unsubscribe, any
\* other to WebSocket::send.
ClientCall(sess, call) ==
    /\ upBudget > 0
    /\ upBudget' = upBudget - 1
    /\ upStuck = "none"
    /\ sess # NoSession => sessOpen[sess]
    /\ sess = NoSession => call.method = Subscription.subscribe /\ call.id = 1
    /\ LET me == Len(upCalls) + 1
           frame == Frame(call.id, call.method, call.params, me)
           k == Len(upWire) + 1
           w == World
           w0 == [w EXCEPT !.calls = Append(@, UpCall(sess, call, k, "wait"))]
           w1 == CASE route(call) = "subscribe" ->
                        subscribe(w0, Other, frame, sess)
                   [] route(call) = "unsubscribe" ->
                        unsubscribe(w0, Other, frame, Regular(me))
                   [] OTHER -> send(w0, Other, frame, Regular(me))
       IN  Commit(IF w1.stuck # "none" THEN [w1 EXCEPT !.calls[me].frame = 0] ELSE w1)
    /\ UNCHANGED <<upSubCounter, upLastNotif, upConnected, upEmitted, upNotifsLeft, clientGot>>
    /\ UNCHANGED <<permVars, cacheVars, signVars, rlpVars>>

\* What upstream may answer to a request: a subscribe gets a subscription
\* id never issued before or a Failure, any other request its result.
UpResults(frame) ==
    IF frame.method = Subscription.subscribe
    THEN {upSubCounter + 1, ErrorResult}
    ELSE {RegularResult}

\* A variant of peek_id: every response is matched against the entry stored
\* under id 1.
PeekIdFirst(resp) == 1

\* helpers::peek_id (helpers.rs:37-41) of a response frame.
peek_id(resp) == resp.id

\* A variant of peek_subscription: a frame without a result is taken for
\* subscription 0.
PeekSubscriptionLenient(resp) ==
    IF resp.result = ErrorResult THEN Some(0) ELSE Some(resp.result)

\* helpers::peek_result then SubscriptionId::parse_value
\* (helpers.rs:27-31, lib.rs:77-79): a Success with a number or a string.
peek_subscription(resp) ==
    IF resp.result = ErrorResult THEN None ELSE Some(resp.result)

\* A variant of process_response: the frame is released to the caller and
\* the subscription of a Subscribe entry is not registered.
ProcessResponseNoRegister(w, resp) ==
    LET id == peek_id(resp)
        found == w.pending[id]
    IN  IF found = None THEN w
        ELSE LET entry == Unwrap(found)
                 w1 == [w EXCEPT !.pending[id] = None]
                 w2 == IF entry.kind = "Subscribe"
                       THEN ReleaseSession(w1, Reader, entry.session)
                       ELSE w1
             IN  IF w2.stuck # "none" \/ entry.caller = 0 THEN w2
                 ELSE IF w2.calls[entry.caller].st = "gone" THEN w2
                 ELSE [w2 EXCEPT !.calls[entry.caller].st = "ok",
                                 !.calls[entry.caller].resp = Some(resp)]

\* A variant of process_response: the entry is looked up and left in the
\* table.
ProcessResponseKeepingEntry(w, resp) ==
    LET id == peek_id(resp)
        found == w.pending[id]
    IN  IF found = None THEN w
        ELSE LET entry == Unwrap(found)
             IN  IF entry.caller = 0 THEN w
                 ELSE [w EXCEPT !.calls[entry.caller].st = "ok",
                                !.calls[entry.caller].resp = Some(resp)]

\* process_message for a response frame (lib.rs:69-99).
process_response(w, resp) ==
    LET id == peek_id(resp)
        found == w.pending[id]
    IN  IF found = None THEN w
        ELSE LET entry == Unwrap(found)
                 w1 == [w EXCEPT !.pending[id] = None]
                 w2 == IF entry.kind = "Subscribe"
                       THEN IF IsSome(peek_subscription(resp))
                            THEN add_subscription(w1, Reader, Unwrap(peek_subscription(resp)),
                                                  entry.session)
                            ELSE ReleaseSession(w1, Reader, entry.session)
                       ELSE w1
             IN  IF w2.stuck # "none" \/ entry.caller = 0 THEN w2
                 ELSE IF w2.calls[entry.caller].st = "gone" THEN w2
                 ELSE [w2 EXCEPT !.calls[entry.caller].st = "ok",
                                 !.calls[entry.caller].resp = Some(resp)]

\* Upstream answers the request at position k of the wire and the reader
\* task processes the frame.  Upstream answers a request once, in any order.
UpstreamRespond(k) ==
    /\ k \in 1..Len(upWire)
    /\ k \notin upAnswered
    /\ upConnected
    /\ upStuck = "none"
    /\ \E result \in UpResults(upWire[k]) :
          /\ Commit(process_response([World EXCEPT !.answered = @ \cup {k}],
                                     [id |-> upWire[k].id, req |-> k, result |-> result]))
          /\ upSubCounter' = IF result > 0 THEN upSubCounter + 1 ELSE upSubCounter
    /\ UNCHANGED <<upLastNotif, upBudget, upConnected, upEmitted, upNotifsLeft, clientGot>>
    /\ UNCHANGED <<permVars, cacheVars, signVars, rlpVars>>

\* A variant of NotifyTargets: every live session gets every notification.
NotifyAllSessions(subs, dropped, s) == {x \in Sessions : ~dropped[x]}

\* Shared::notify_subscription (shared.rs:103-120): the sessions whose sink
\* gets a notification for subscription s.
NotifyTargets(subs, dropped, s) ==
    IF IsSome(subs[s]) /\ ~dropped[Unwrap(subs[s])] THEN {Unwrap(subs[s])} ELSE {}

\* The sessions whose subscribe call resolved with subscription id s.
SubscribersOf(s) ==
    {upCalls[c].sess : c \in {d \in 1..Len(upCalls) :
        /\ upCalls[d].method = Subscription.subscribe
        /\ upCalls[d].st = "ok"
        /\ Unwrap(upCalls[d].resp).result = s}}

\* A variant of SinkPush: the newest message overtakes the queued ones.
SinkPushFront(sink, msg) == <<msg>> \o sink

\* session.sender().unbounded_send(msg) (shared.rs:108-110): the message
\* joins the session's channel behind those already in it.
SinkPush(sink, msg) == Append(sink, msg)

\* A variant of notify_subscription: the entry of a session that is gone is
\* removed when a notification finds it.
NotifyDroppingDead(w, msg) ==
    IF IsSome(w.subs[msg.sub]) /\ w.dropped[Unwrap(w.subs[msg.sub])]
    THEN [w EXCEPT !.subs[msg.sub] = None]
    ELSE [w EXCEPT !.sink = [x \in Sessions |->
                               IF x \in NotifyTargets(w.subs, w.dropped, msg.sub)
                               THEN SinkPush(w.sink[x], msg) ELSE w.sink[x]]]

\* Shared::notify_subscription (shared.rs:103-120) for a notification frame:
\* the entry is read, the weak reference upgraded and the frame pushed.
notify_subscription(w, msg) ==
    [w EXCEPT !.sink = [x \in Sessions |->
                          IF x \in NotifyTargets(w.subs, w.dropped, msg.sub)
                          THEN SinkPush(w.sink[x], msg) ELSE w.sink[x]]]

\* The receiver of a session's channel is owned by the task of the
\* session's connection: once the connection is closed, unbounded_send
\* (shared.rs:108-110) may find the receiver gone while a pending subscribe
\* entry still keeps the session.
ReceiverMayBeGone(s) ==
    \E x \in NotifyTargets(upSubs, sessDropped, s) : ~sessOpen[x]

\* Upstream emits a notification for a subscription it has issued and the
\* reader task processes it (lib.rs:58-67).  When the send into the
\* session's channel fails, process_message resolves to the error, the
\* reader's for_each ends with it and so does the connection's task
\* (lib.rs:185-197).
UpstreamNotify(s) ==
    /\ s \in 1..upSubCounter
    /\ upConnected
    /\ upNotifsLeft > 0
    /\ upStuck # Reader
    /\ \E gone \in BOOLEAN :
          /\ gone => ReceiverMayBeGone(s)
          /\ LET msg == [sub |-> s, seq |-> Len(upEmitted) + 1]
                 w1 == IF gone THEN World ELSE notify_subscription(World, msg)
                 n == [sub |-> s,
                       to |-> {x \in Sessions : w1.sink[x] # sessSink[x]},
                       owners |-> SubscribersOf(s),
                       known |-> IsSome(upSubs[s]),
                       failed |-> gone,
                       live |-> /\ s \notin unsubscribed
                                /\ ~gone
                                /\ \E x \in SubscribersOf(s) : ~sessDropped[x]]
             IN  /\ Commit(w1)
                 /\ upLastNotif' = Some(n)
                 /\ upEmitted' = Append(upEmitted, n)
          /\ upConnected' = ~gone
    /\ upNotifsLeft' = upNotifsLeft - 1
    /\ UNCHANGED <<upSubCounter, upBudget, clientGot>>
    /\ UNCHANGED <<permVars, cacheVars, signVars, rlpVars>>

\* The client of a closed connection is gone and the future of one of its
\* calls is dropped with it: the receiver of the call's one-shot channel no
\* longer exists.
CallerDeparts(c) ==
    /\ c \in 1..Len(upCalls)
    /\ upCalls[c].st = "wait"
    /\ upCalls[c].sess # NoSession
    /\ ~sessOpen[upCalls[c].sess]
    /\ upCalls' = [upCalls EXCEPT ![c].st = "gone"]
    /\ UNCHANGED <<upPending, upSubs, upWire, upAnswered, upSubCounter,
                   sessOpen, sessDropped, sessHooks, hookRuns, unsubscribed,
                   upLastNotif, upStuck, upBudget, upConnected, upEmitted,
                   upNotifsLeft, sessSink, clientGot>>
    /\ UNCHANGED <<permVars, cacheVars, signVars, rlpVars>>

\* The task of the upstream connection ends (lib.rs:184-208): the reader or
\* the writer failed, both halves and the receiver of write_sender are
\* dropped.  Shared is owned by the WebSocket handle and is not touched.
UpstreamDisconnect ==
    /\ upConnected
    /\ upConnected' = FALSE
    /\ UNCHANGED <<upPending, upSubs, upWire, upAnswered, upSubCounter, upCalls,
                   sessOpen, sessDropped, sessHooks, hookRuns, unsubscribed,
                   upLastNotif, upStuck, upBudget, upEmitted, upNotifsLeft,
                   sessSink, clientGot>>
    /\ UNCHANGED <<permVars, cacheVars, signVars, rlpVars>>

\* The output of the future upstream::Middleware::on_call returns
\* (upstream lib.rs:139-162): the transport's output, and no output when
\* the transport's future resolved with an error.
on_call_output(rec) == IF rec.st = "ok" THEN rec.resp ELSE None

\* The client's connection closes: the server gives up its Arc<Session>.
ClientClose(sess) ==
    /\ sessOpen[sess]
    /\ Commit(ReleaseSession([World EXCEPT !.open[sess] = FALSE], Other, sess))
    /\ UNCHANGED <<upSubCounter, upLastNotif, upBudget, upConnected, upEmitted,
                   upNotifsLeft, clientGot>>
    /\ UNCHANGED <<permVars, cacheVars, signVars, rlpVars>>

\* The connection of a session closes, seen step by step: first the server
\* gives up its Arc<Session>; if it was the last one the strong count is
\* zero from here on (no upgrade succeeds) and Session::drop starts.
ClientCloseBegin(sess) ==
    /\ sessOpen[sess]
    /\ LET w == [World EXCEPT !.open[sess] = FALSE]
       IN  Commit(IF LastRef(w, sess) THEN [w EXCEPT !.dropped[sess] = TRUE] ELSE w)
    /\ UNCHANGED <<upSubCounter, upLastNotif, upBudget, upConnected, upEmitted,
                   upNotifsLeft, clientGot>>
    /\ UNCHANGED <<permVars, cacheVars, signVars, rlpVars>>

\* Session::drop of a session whose strong count reached zero on the
\* connection's thread runs the on-drop hooks.
ClientCloseHooks(sess) ==
    /\ sessDropped[sess]
    /\ sessHooks[sess] # << >>
    /\ upStuck = "none"
    /\ Commit(RunHooks([World EXCEPT !.hooks[sess] = << >>], Other, sessHooks[sess]))
    /\ UNCHANGED <<upSubCounter, upLastNotif, upBudget, upConnected, upEmitted,
                   upNotifsLeft, clientGot>>
    /\ UNCHANGED <<permVars, cacheVars, signVars, rlpVars>>

\* A frame written to a client's connection: the response to one of its
\* calls or a notification.
ResponseFrame(c) == [kind |-> "response", call |-> c, sub |-> 0, seq |-> 0]

NotificationFrame(msg) == [kind |-> "notification", call |-> 0, sub |-> msg.sub, seq |-> msg.seq]

\* The notifications a client has received so far.
NotificationsGot(sess) ==
    Cardinality({p \in 1..Len(clientGot[sess]) : clientGot[sess][p].kind = "notification"})

\* The response path: the future of a call has resolved with an output and
\* the server's task for the request writes it to the connection
\* (proxy/transports ws.rs:130-151, the handler given to the server).
ClientReceiveResponse(c) ==
    /\ c \in 1..Len(upCalls)
    /\ upCalls[c].sess # NoSession
    /\ sessOpen[upCalls[c].sess]
    /\ IsSome(on_call_output(upCalls[c]))
    /\ \A p \in 1..Len(clientGot[upCalls[c].sess]) :
          clientGot[upCalls[c].sess][p] # ResponseFrame(c)
    /\ clientGot' = [clientGot EXCEPT ![upCalls[c].sess] = Append(@, ResponseFrame(c))]
    /\ UNCHANGED <<upPending, upSubs, upWire, upAnswered, upSubCounter, upCalls,
                   sessOpen, sessDropped, sessHooks, hookRuns, unsubscribed,
                   upLastNotif, upStuck, upBudget, upConnected, upEmitted,
                   upNotifsLeft, sessSink>>
    /\ UNCHANGED <<permVars, cacheVars, signVars, rlpVars>>

\* The notification path: the task that drains the channel behind
\* Session::sender (proxy/transports ws.rs:138-140, context.sender())
\* writes the oldest message not yet written.
ClientReceiveNotification(sess) ==
    /\ sessOpen[sess]
    /\ NotificationsGot(sess) < Len(sessSink[sess])
    /\ clientGot' = [clientGot EXCEPT ![sess] =
          Append(@, NotificationFrame(sessSink[sess][NotificationsGot(sess) + 1]))]
    /\ UNCHANGED <<upPending, upSubs, upWire, upAnswered, upSubCounter, upCalls,
                   sessOpen, sessDropped, sessHooks, hookRuns, unsubscribed,
                   upLastNotif, upStuck, upBudget, upConnected, upEmitted,
                   upNotifsLeft, sessSink>>
    /\ UNCHANGED <<permVars, cacheVars, signVars, rlpVars>>

---------------------------------------------------------------------------
(***************************************************************************)
(* Signed transactions: rlp::Encodable and rlp::Decodable                  *)
(*                                                                         *)
(* An RLP item is a byte string or a list of items.  U256 and u64 are      *)
(* integers, written as big-endian bytes without leading zeros; an         *)
(* Address is a string of 20 bytes.                                        *)
(***************************************************************************)

MaxDataLen == 1

RlpData(bytes) == [list |-> FALSE, bytes |-> bytes, items |-> << >>]

RlpList(items) == [list |-> TRUE, bytes |-> << >>, items |-> items]

\* Rlp::is_empty: the empty byte string or the empty list.
is_empty(item) == IF item.list THEN item.items = << >> ELSE item.bytes = << >>

is_data(item) == ~item.list

Ok(v) == [ok |-> TRUE, val |-> <<v>>, err |-> "none"]

Err(e) == [ok |-> FALSE, val |-> << >>, err |-> e]

\* H160::repeat_byte; Address::default() is repeat_byte(0).
repeat_byte(b) == [i \in 1..20 |-> b]

\* A [u8; 32] whose last two bytes are hi and lo.
Bytes32(hi, lo) == [i \in 1..32 |-> IF i = 31 THEN hi ELSE IF i = 32 THEN lo ELSE 0]

RECURSIVE to_big_endian(_)
\* The big-endian bytes of n without leading zeros (zero is the empty string).
to_big_endian(n) ==
    IF n = 0 THEN << >> ELSE Append(to_big_endian(n \div 256), n % 256)

RECURSIVE from_big_endian(_)
\* U256::from_big_endian
from_big_endian(bytes) ==
    IF bytes = << >> THEN 0
    ELSE from_big_endian(SubSeq(bytes, 1, Len(bytes) - 1)) * 256 + bytes[Len(bytes)]

RECURSIVE StripZeros(_)
\* A byte string without its leading zero bytes.
StripZeros(bytes) ==
    IF bytes # << >> /\ bytes[1] = 0 THEN StripZeros(Tail(bytes)) ELSE bytes

\* A byte string padded on the left with zero bytes up to width bytes.
PadLeft(bytes, width) ==
    [i \in 1..width |->
        IF i <= width - Len(bytes) THEN 0 ELSE bytes[i - (width - Len(bytes))]]

\* A u64 is its eight big-endian bytes; U64(n) is the u64 of a small n.
U64(n) == PadLeft(to_big_endian(n), 8)

RECURSIVE u64_add(_, _)
\* a + b on 64 bits: the wrapped sum and whether it overflowed.
u64_add(a, b) ==
    IF a = << >> THEN [val |-> << >>, carry |-> 0]
    ELSE LET rest == u64_add(Tail(a), Tail(b))
             d == a[1] + b[1] + rest.carry
         IN  [val |-> <<d % 256>> \o rest.val, carry |-> d \div 256]

RECURSIVE u64_sub(_, _)
\* a - b on 64 bits: the wrapped difference and whether it underflowed.
u64_sub(a, b) ==
    IF a = << >> THEN [val |-> << >>, borrow |-> 0]
    ELSE LET rest == u64_sub(Tail(a), Tail(b))
             d == a[1] - b[1] - rest.borrow
         IN  [val |-> <<(d + 256) % 256>> \o rest.val,
              borrow |-> IF d < 0 THEN 1 ELSE 0]

RECURSIVE u64_lt(_, _)
\* a < b
u64_lt(a, b) ==
    IF a = << >> THEN FALSE
    ELSE IF a[1] # b[1] THEN a[1] < b[1]
    ELSE u64_lt(Tail(a), Tail(b))

RECURSIVE u64_shr(_, _)
\* a / 2, the bit shifted in from the left being rem
u64_shr(a, rem) ==
    IF a = << >> THEN << >>
    ELSE <<(rem * 256 + a[1]) \div 2>> \o u64_shr(Tail(a), a[1] % 2)

\* a / 2
u64_div2(a) == u64_shr(a, 0)

\* a % 2
u64_mod2(a) == a[Len(a)] % 2

\* s.append of a U256
append_uint(n) == RlpData(to_big_endian(n))

\* s.append of a u64
append_u64(w) == RlpData(StripZeros(w))

\* val_at for a u64
decode_u64(item) ==
    IF item.list THEN Err("RlpExpectedToBeData")
    ELSE IF item.bytes # << >> /\ item.bytes[1] = 0 THEN Err("RlpInvalidIndirection")
    ELSE IF Len(item.bytes) > 8 THEN Err("RlpIsTooBig")
    ELSE Ok(PadLeft(item.bytes, 8))

\* val_at for a U256 (width 32)
decode_uint(item, width) ==
    IF item.list THEN Err("RlpExpectedToBeData")
    ELSE IF item.bytes # << >> /\ item.bytes[1] = 0 THEN Err("RlpInvalidIndirection")
    ELSE IF Len(item.bytes) > width THEN Err("RlpIsTooBig")
    ELSE Ok(from_big_endian(item.bytes))

\* val_at::<Vec<u8>>
decode_bytes(item) ==
    IF item.list THEN Err("RlpExpectedToBeData") ELSE Ok(item.bytes)

\* as_val for an Address
decode_address(item) ==
    IF item.list THEN Err("RlpExpectedToBeData")
    ELSE IF Len(item.bytes) < 20 THEN Err("RlpIsTooShort")
    ELSE IF Len(item.bytes) > 20 THEN Err("RlpIsTooBig")
    ELSE Ok(item.bytes)

\* The recipient written like a number, without its leading zero bytes.
AppendToTrimmed(to) ==
    IF to = None THEN RlpData(<< >>) ELSE RlpData(StripZeros(Unwrap(to)))

\* rlp_append, the `to` field (lib.rs:135-138)
append_to(to) ==
    IF to = None THEN RlpData(<< >>) ELSE RlpData(Unwrap(to))

\* decode, the `to` field (lib.rs:102-113)
decode_to(item) ==
    IF is_empty(item)
    THEN IF is_data(item) THEN Ok(None) ELSE Err("RlpExpectedToBeData")
    ELSE LET a == decode_address(item)
         IN  IF a.ok THEN Ok(Some(Unwrap(a.val))) ELSE a

\* replay_protection::add: v as u64 + 35 + chain_id * 2, with the value a
\* build without overflow checks computes and whether a step overflowed.
replay_protection_add(v, chain_id) ==
    LET twice == u64_add(chain_id, chain_id)
        base == u64_add(U64(v), U64(35))
        sum == u64_add(base.val, twice.val)
    IN  [val |-> sum.val, overflow |-> twice.carry = 1 \/ sum.carry = 1]

\* replay_protection::chain_id
replay_protection_chain_id(v) ==
    IF ~u64_lt(v, U64(35)) THEN Some(u64_div2(u64_sub(v, U64(35)).val)) ELSE None

\* SignedTransaction::new
SignedTransaction_new(transaction, chain_id, v, r, s) ==
    [transaction |-> transaction,
     v |-> replay_protection_add(v, chain_id).val,
     r |-> from_big_endian(r),
     s |-> from_big_endian(s)]

\* The recovery byte taken from the parity of v itself.
StandardVNoOffset(t) ==
    IF t.v = U64(27) THEN 0
    ELSE IF t.v = U64(28) THEN 1
    ELSE IF ~u64_lt(t.v, U64(35)) THEN u64_mod2(t.v)
    ELSE 4

\* SignedTransaction::standard_v
standard_v(t) ==
    IF t.v = U64(27) THEN 0
    ELSE IF t.v = U64(28) THEN 1
    ELSE IF ~u64_lt(t.v, U64(35)) THEN u64_mod2(u64_sub(t.v, U64(1)).val)
    ELSE 4

\* SignedTransaction::chain_id
SignedTransaction_chain_id(t) == replay_protection_chain_id(t.v)

\* <SignedTransaction as Encodable>::rlp_append
rlp_append(t) ==
    RlpList(<<append_uint(t.transaction.nonce),
              append_uint(t.transaction.gas_price),
              append_uint(t.transaction.gas),
              append_to(t.transaction.to),
              append_uint(t.transaction.value),
              RlpData(t.transaction.data),
              append_u64(t.v),
              append_uint(t.r),
              append_uint(t.s)>>)

\* <SignedTransaction as Decodable>::decode: the fields are read in the
\* order of the struct expression and the first error is returned.
decode(d) ==
    IF ~d.list THEN Err("RlpExpectedToBeList")
    ELSE IF Len(d.items) # 9 THEN Err("RlpIncorrectListLen")
    ELSE LET read == <<decode_uint(d.items[1], 32),
                       decode_uint(d.items[2], 32),
                       decode_uint(d.items[3], 32),
                       decode_to(d.items[4]),
                       decode_uint(d.items[5], 32),
                       decode_bytes(d.items[6]),
                       decode_u64(d.items[7]),
                       decode_uint(d.items[8], 32),
                       decode_uint(d.items[9], 32)>>
             failed == {i \in 1..9 : ~read[i].ok}
         IN  IF failed # {}
             THEN read[CHOOSE i \in failed : \A j \in failed : i <= j]
             ELSE Ok([transaction |->
                        [from |-> repeat_byte(0),
                         to |-> Unwrap(read[4].val),
                         nonce |-> Unwrap(read[1].val),
                         gas |-> Unwrap(read[3].val),
                         gas_price |-> Unwrap(read[2].val),
                         value |-> Unwrap(read[5].val),
                         data |-> Unwrap(read[6].val)],
                      v |-> Unwrap(read[7].val),
                      r |-> Unwrap(read[8].val),
                      s |-> Unwrap(read[9].val)])

\* The byte strings of at most MaxDataLen bytes over two byte values.
RlpDatas == UNION {[1..n -> {0, 5}] : n \in 0..MaxDataLen}

\* The transactions the round trip is run on.
RlpTransactions ==
    [from : {repeat_byte(0), repeat_byte(7)},
     to : {None, Some(repeat_byte(0)), Some(repeat_byte(5))},
     nonce : {0, 5},
     gas : {69, 256},
     gas_price : {15},
     value : {1000},
     data : RlpDatas]

\* Chain ids: small ones, the two largest for which v does not overflow with
\* recovery byte 1 and 0 (2^63 - 19 and 2^63 - 18), and 2^63.
RlpChainIds ==
    {U64(0), U64(105),
     <<127, 255, 255, 255, 255, 255, 255, 237>>,
     <<127, 255, 255, 255, 255, 255, 255, 238>>,
     <<128, 0, 0, 0, 0, 0, 0, 0>>}

\* The arguments of SignedTransaction::new.
RlpArgs ==
    [tx : RlpTransactions,
     chain_id : RlpChainIds,
     v : {0, 1, 2},
     r : {Bytes32(0, 1), Bytes32(1, 0)},
     s : {Bytes32(0, 0), Bytes32(1, 1)}]

\* What can happen to an encoding before it is decoded.
RlpTampers == {"drop_last", "append", "empty_list_to"}

Tamper(d, how) ==
    CASE how = "drop_last" -> RlpList(SubSeq(d.items, 1, Len(d.items) - 1))
      [] how = "append" -> RlpList(Append(d.items, RlpData(<< >>)))
      [] how = "empty_list_to" -> RlpList([d.items EXCEPT ![4] = RlpList(<< >>)])

\* No transaction is being encoded.
RlpIdle ==
    /\ rlpPc = "idle"
    /\ rlpArgs = None
    /\ rlpTx = None
    /\ rlpEncoded = None
    /\ rlpTampered = "none"
    /\ rlpDecoded = None
    /\ rlpView = None

\* Values built as a struct expression, as SignTransaction::hash does with
\* v = chain_id, r = 0 and s = 0 (lib.rs:71-79).
RlpLiterals ==
    {[transaction |-> [from |-> repeat_byte(0), to |-> None, nonce |-> 5,
                       gas |-> 69, gas_price |-> 15, value |-> 1000,
                       data |-> << >>],
      v |-> U64(n), r |-> 0, s |-> 0] : n \in {0, 27, 28, 34, 35, 36, 105}}

\* Either the arguments of SignedTransaction::new or a value built directly.
RlpInit ==
    /\ \/ /\ rlpPc = "args"
          /\ rlpArgs \in {Some(a) : a \in RlpArgs}
          /\ rlpTx = None
       \/ /\ rlpPc = "built"
          /\ rlpArgs = None
          /\ rlpTx \in {Some(t) : t \in RlpLiterals}
    /\ rlpEncoded = None
    /\ rlpTampered = "none"
    /\ rlpDecoded = None
    /\ rlpView = None

\* SignedTransaction::new(Cow::Owned(transaction), chain_id, v, r, s).  When
\* the sum overflows, a build with overflow checks panics and a build
\* without them stores the wrapped value.
RlpNew ==
    /\ rlpPc = "args"
    /\ \/ /\ rlpPc' = "built"
          /\ rlpTx' = Some(SignedTransaction_new(Unwrap(rlpArgs).tx,
                              Unwrap(rlpArgs).chain_id, Unwrap(rlpArgs).v,
                              Unwrap(rlpArgs).r, Unwrap(rlpArgs).s))
       \/ /\ replay_protection_add(Unwrap(rlpArgs).v, Unwrap(rlpArgs).chain_id).overflow
          /\ rlpPc' = "panicked"
          /\ rlpTx' = None
    /\ UNCHANGED <<rlpArgs, rlpEncoded, rlpTampered, rlpDecoded, rlpView>>
    /\ UNCHANGED <<permVars, cacheVars, signVars, upVars>>

\* t.chain_id() and t.standard_v()
RlpInspect ==
    /\ rlpPc = "built"
    /\ rlpPc' = "inspected"
    /\ rlpView' = Some([chain_id |-> SignedTransaction_chain_id(Unwrap(rlpTx)),
                        standard_v |-> standard_v(Unwrap(rlpTx))])
    /\ UNCHANGED <<rlpArgs, rlpTx, rlpEncoded, rlpTampered, rlpDecoded>>
    /\ UNCHANGED <<permVars, cacheVars, signVars, upVars>>

\* rlp::encode(&t)
RlpEncode ==
    /\ rlpPc = "built"
    /\ rlpPc' = "encoded"
    /\ rlpEncoded' = Some(rlp_append(Unwrap(rlpTx)))
    /\ UNCHANGED <<rlpArgs, rlpTx, rlpTampered, rlpDecoded, rlpView>>
    /\ UNCHANGED <<permVars, cacheVars, signVars, upVars>>

\* The bytes handed to decode are not the ones encode produced.
RlpTamper(how) ==
    /\ rlpPc = "encoded"
    /\ rlpTampered = "none"
    /\ rlpTampered' = how
    /\ rlpEncoded' = Some(Tamper(Unwrap(rlpEncoded), how))
    /\ UNCHANGED <<rlpPc, rlpArgs, rlpTx, rlpDecoded, rlpView>>
    /\ UNCHANGED <<permVars, cacheVars, signVars, upVars>>

\* rlp::decode(&encoded)
RlpDecode ==
    /\ rlpPc = "encoded"
    /\ rlpPc' = "decoded"
    /\ rlpDecoded' = Some(decode(Unwrap(rlpEncoded)))
    /\ UNCHANGED <<rlpArgs, rlpTx, rlpEncoded, rlpTampered, rlpView>>
    /\ UNCHANGED <<permVars, cacheVars, signVars, upVars>>

\* C20: decoding the encoding of SignedTransaction::new(..) gives back the
\* value when `from` is the zero address (and the value with `from` zeroed
\* otherwise); the encoding is a list of nine items in which an absent
\* recipient is the empty byte string, and it decodes to an absent
\* recipient; an encoding whose list does not have nine items is rejected.
C20_RlpRoundTrip ==
    rlpPc = "decoded" =>
        LET t == Unwrap(rlpTx)
            d == Unwrap(rlpEncoded)
            res == Unwrap(rlpDecoded)
        IN  /\ rlpTampered = "none" =>
                /\ d.list /\ Len(d.items) = 9
                /\ (t.transaction.to = None) <=> (d.items[4] = RlpData(<< >>))
                /\ res.ok
                /\ Unwrap(res.val).transaction.to = t.transaction.to
                /\ Unwrap(res.val) = [t EXCEPT !.transaction.from = repeat_byte(0)]
                /\ t.transaction.from = repeat_byte(0) => Unwrap(res.val) = t
            /\ rlpTampered \in {"drop_last", "append"} =>
                ~res.ok /\ res.err = "RlpIncorrectListLen"

\* A transaction without recipient and with the zero `from` went through
\* the round trip.
C20_Witness ==
    /\ rlpPc = "decoded"
    /\ rlpTampered = "none"
    /\ Unwrap(rlpTx).transaction.to = None
    /\ Unwrap(rlpTx).transaction.from = repeat_byte(0)
    /\ Unwrap(rlpTx).transaction.nonce = 5
    /\ Unwrap(rlpTx).v = U64(245)
    /\ Unwrap(rlpDecoded).ok

\* A recipient that is the zero address went through the round trip.
RlpZeroRecipientDecoded ==
    /\ rlpPc = "decoded"
    /\ rlpTampered = "none"
    /\ Unwrap(rlpTx).transaction.to = Some(repeat_byte(0))
    /\ Unwrap(rlpDecoded).ok

\* An encoding of eight items was handed to decode.
RlpShortListDecoded ==
    /\ rlpPc = "decoded"
    /\ rlpTampered = "drop_last"
    /\ ~Unwrap(rlpDecoded).ok

\* The sum v + 35 + chain_id * 2 of the arguments fits in 64 bits.
NewFits == ~replay_protection_add(Unwrap(rlpArgs).v, Unwrap(rlpArgs).chain_id).overflow

\* C21: when the sum of SignedTransaction::new does not overflow 64 bits, the
\* stored v is recovery byte + 35 + chain_id * 2, chain_id() returns
\* Some(chain_id) and, for a recovery byte of 0 or 1, standard_v() returns
\* the recovery byte; for a v below 35, chain_id() returns None.
C21_ReplayProtectedV ==
    rlpPc = "inspected" =>
        /\ (rlpArgs # None /\ NewFits) =>
              /\ ~u64_lt(Unwrap(rlpTx).v, U64(35 + Unwrap(rlpArgs).v))
              /\ u64_sub(Unwrap(rlpTx).v, U64(35 + Unwrap(rlpArgs).v)).val
                    = u64_add(Unwrap(rlpArgs).chain_id, Unwrap(rlpArgs).chain_id).val
              /\ Unwrap(rlpArgs).v \in {0, 1} =>
                    /\ Unwrap(rlpView).chain_id = Some(Unwrap(rlpArgs).chain_id)
                    /\ Unwrap(rlpView).standard_v = Unwrap(rlpArgs).v
        /\ u64_lt(Unwrap(rlpTx).v, U64(35)) => Unwrap(rlpView).chain_id = None

\* The largest chain id that fits with recovery byte 1 was used and read back.
C21_Witness ==
    /\ rlpPc = "inspected"
    /\ rlpArgs # None
    /\ Unwrap(rlpArgs).chain_id = <<127, 255, 255, 255, 255, 255, 255, 237>>
    /\ Unwrap(rlpArgs).v = 1
    /\ NewFits
    /\ Unwrap(rlpTx).v = <<255, 255, 255, 255, 255, 255, 255, 254>>
    /\ Unwrap(rlpView).standard_v = 1

\* A value with v = 34 was inspected.
ReplayBelow35Inspected ==
    /\ rlpPc = "inspected"
    /\ Unwrap(rlpTx).v = U64(34)
    /\ Unwrap(rlpView).chain_id = None

\* The sum overflowed and the wrapped v was stored: chain_id() then returns
\* another chain id, or none.
ReplayWrapped ==
    /\ rlpPc = "inspected"
    /\ rlpArgs # None
    /\ ~NewFits
    /\ Unwrap(rlpView).chain_id # Some(Unwrap(rlpArgs).chain_id)

\* The sum overflowed and new panicked.
ReplayPanicked == rlpPc = "panicked"

---------------------------------------------------------------------------
(***************************************************************************)
(* Specifications                                                          *)
(***************************************************************************)

InitPerm ==
    /\ PermInit
    /\ UpInit
    /\ upBudget = MaxUpCalls
    /\ upNotifsLeft = MaxNotifs
    /\ RlpIdle
    /\ cacheEnabled = FALSE
    /\ cached = [k \in CacheKeys |-> None]
    /\ cacheNow = 0
    /\ cacheCalls = << >>
    /\ signSecret = FALSE
    /\ signId = FirstInternalId
    /\ signLock = None
    /\ signCalls = << >>
    /\ signUp = {}
    /\ signSent = << >>

InitCache ==
    /\ CacheInit
    /\ UpInit
    /\ upBudget = MaxUpCalls
    /\ upNotifsLeft = MaxNotifs
    /\ RlpIdle
    /\ permBase = "Allow"
    /\ permissioned = [m \in PermMethods |-> None]
    /\ permLog = << >>
    /\ permNextCalled = 0
    /\ signSecret = FALSE
    /\ signId = FirstInternalId
    /\ signLock = None
    /\ signCalls = << >>
    /\ signUp = {}
    /\ signSent = << >>

NextPerm == \E call \in PermCalls : PermOnCall(call)

NextCache ==
    \/ \E call \in CacheInputs : CacheOnCall(call)
    \/ \E i \in 1..MaxCacheCalls : CacheResolve(i)
    \/ CacheTick

InitUp ==
    /\ UpInit
    /\ upBudget = MaxUpCalls
    /\ upNotifsLeft = MaxNotifs
    /\ RlpIdle
    /\ permBase = "Allow"
    /\ permissioned = [m \in PermMethods |-> None]
    /\ permLog = << >>
    /\ permNextCalled = 0
    /\ cacheEnabled = FALSE
    /\ cached = [k \in CacheKeys |-> None]
    /\ cacheNow = 0
    /\ cacheCalls = << >>
    /\ signSecret = FALSE
    /\ signId = FirstInternalId
    /\ signLock = None
    /\ signCalls = << >>
    /\ signUp = {}
    /\ signSent = << >>

InitUpDrop ==
    /\ UpInit
    /\ upBudget = DropScenarioCalls
    /\ upNotifsLeft = MaxNotifs
    /\ RlpIdle
    /\ permBase = "Allow"
    /\ permissioned = [m \in PermMethods |-> None]
    /\ permLog = << >>
    /\ permNextCalled = 0
    /\ cacheEnabled = FALSE
    /\ cached = [k \in CacheKeys |-> None]
    /\ cacheNow = 0
    /\ cacheCalls = << >>
    /\ signSecret = FALSE
    /\ signId = FirstInternalId
    /\ signLock = None
    /\ signCalls = << >>
    /\ signUp = {}
    /\ signSent = << >>

NextUp ==
    \/ \E sess \in Sessions \cup {NoSession} : \E call \in UpInputs : ClientCall(sess, call)
    \/ \E k \in 1..(2 * DropScenarioCalls) : UpstreamRespond(k)
    \/ \E s \in SubIds : UpstreamNotify(s)
    \/ \E sess \in Sessions : ClientClose(sess)

InitUpPush ==
    /\ UpInit
    /\ upBudget = MaxUpCalls
    /\ upNotifsLeft = PushScenarioNotifs
    /\ RlpIdle
    /\ permBase = "Allow"
    /\ permissioned = [m \in PermMethods |-> None]
    /\ permLog = << >>
    /\ permNextCalled = 0
    /\ cacheEnabled = FALSE
    /\ cached = [k \in CacheKeys |-> None]
    /\ cacheNow = 0
    /\ cacheCalls = << >>
    /\ signSecret = FALSE
    /\ signId = FirstInternalId
    /\ signLock = None
    /\ signCalls = << >>
    /\ signUp = {}
    /\ signSent = << >>

NextUpPush ==
    \/ \E sess \in Sessions \cup {NoSession} : \E call \in UpInputs : ClientCall(sess, call)
    \/ \E k \in 1..(2 * DropScenarioCalls) : UpstreamRespond(k)
    \/ \E s \in SubIds : UpstreamNotify(s)
    \/ UpstreamDisconnect
    \/ \E sess \in Sessions : ClientCloseBegin(sess)
    \/ \E sess \in Sessions : ClientCloseHooks(sess)
    \/ \E c \in 1..DropScenarioCalls : CallerDeparts(c)
    \/ \E c \in 1..DropScenarioCalls : ClientReceiveResponse(c)
    \/ \E sess \in Sessions : ClientReceiveNotification(sess)

InitSign ==
    /\ SignInit
    /\ UpInit
    /\ upBudget = MaxUpCalls
    /\ upNotifsLeft = MaxNotifs
    /\ RlpIdle
    /\ permBase = "Allow"
    /\ permissioned = [m \in PermMethods |-> None]
    /\ permLog = << >>
    /\ permNextCalled = 0
    /\ cacheEnabled = FALSE
    /\ cached = [k \in CacheKeys |-> None]
    /\ cacheNow = 0
    /\ cacheCalls = << >>

InitPipe ==
    /\ SignInit
    /\ signSecret
    /\ UpInit
    /\ upBudget = MaxUpCalls
    /\ upNotifsLeft = MaxNotifs
    /\ RlpIdle
    /\ permBase \in Access
    /\ permissioned \in PipePolicies
    /\ permLog = << >>
    /\ permNextCalled = 0
    /\ cacheEnabled = FALSE
    /\ cached = [k \in CacheKeys |-> None]
    /\ cacheNow = 0
    /\ cacheCalls = << >>

NextPipe ==
    \/ \E call \in SignInputs : PipeReject(call)
    \/ \E call \in SignInputs : PipePass(call)
    \/ \E i \in 1..MaxSignCalls : SignPassResolve(i)
    \/ \E i \in 1..MaxSignCalls : SignComposeAfterPrev(i)
    \/ \E i \in 1..MaxSignCalls : \E role \in SignRoles : SignUpstreamAnswer(i, role)
    \/ \E i \in 1..MaxSignCalls : SignProceed(i)
    \/ \E i \in 1..MaxSignCalls : SignFinish(i)

InitSignDrop ==
    /\ InitSign
    /\ signSecret

NextSignDrop ==
    \/ \E call \in SignDropInputs : SignRewrite(CancelScenarioCalls, call)
    \/ \E i \in 1..CancelScenarioCalls : SignCancel(i)
    \/ \E i \in 1..CancelScenarioCalls : SignComposeAfterPrev(i)
    \/ \E i \in 1..CancelScenarioCalls : \E role \in SignRoles : SignUpstreamAnswer(i, role)
    \/ \E i \in 1..CancelScenarioCalls : SignProceed(i)
    \/ \E i \in 1..CancelScenarioCalls : SignFinish(i)

NextSign ==
    \/ \E call \in SignInputs : SignPassThrough(call)
    \/ \E i \in 1..MaxSignCalls : SignPassResolve(i)
    \/ \E call \in SignInputs : SignOnCall(call)
    \/ \E i \in 1..MaxSignCalls : SignComposeAfterPrev(i)
    \/ \E i \in 1..MaxSignCalls : \E role \in SignRoles : SignUpstreamAnswer(i, role)
    \/ \E i \in 1..MaxSignCalls : SignProceed(i)
    \/ \E i \in 1..MaxSignCalls : SignFinish(i)

SpecPerm == InitPerm /\ [][NextPerm]_vars

SpecCache == InitCache /\ [][NextCache]_vars

SpecSign == InitSign /\ [][NextSign]_vars

\* The request tasks are polled by the executor until they finish and the
\* upstream closure's future of every request resolves: each step of the
\* signing path that can be taken is taken.
SignFairness ==
    \A i \in 1..MaxSignCalls :
        /\ WF_vars(SignComposeAfterPrev(i))
        /\ WF_vars(SignProceed(i))
        /\ WF_vars(SignFinish(i))
        /\ \A role \in SignRoles : WF_vars(SignUpstreamAnswer(i, role))

SpecSignLive == InitSign /\ [][NextSign]_vars /\ SignFairness

SpecPipe == InitPipe /\ [][NextPipe]_vars

SpecSignDrop == InitSignDrop /\ [][NextSignDrop]_vars

SpecUp == InitUp /\ [][NextUp]_vars

SpecUpDrop == InitUpDrop /\ [][NextUp]_vars

SpecUpPush == InitUpPush /\ [][NextUpPush]_vars

InitRlp ==
    /\ RlpInit
    /\ UpInit
    /\ upBudget = MaxUpCalls
    /\ upNotifsLeft = MaxNotifs
    /\ permBase = "Allow"
    /\ permissioned = [m \in PermMethods |-> None]
    /\ permLog = << >>
    /\ permNextCalled = 0
    /\ cacheEnabled = FALSE
    /\ cached = [k \in CacheKeys |-> None]
    /\ cacheNow = 0
    /\ cacheCalls = << >>
    /\ signSecret = FALSE
    /\ signId = FirstInternalId
    /\ signLock = None
    /\ signCalls = << >>
    /\ signUp = {}
    /\ signSent = << >>

NextRlp ==
    \/ RlpNew
    \/ RlpInspect
    \/ RlpEncode
    \/ \E how \in RlpTampers : RlpTamper(how)
    \/ RlpDecode

SpecRlp == InitRlp /\ [][NextRlp]_vars

(***************************************************************************)
(* Claims about the response cache                                         *)
(***************************************************************************)

\* The calls of the log that are MethodCalls of a cacheable method.
CacheableCalls ==
    {i \in 1..Len(cacheCalls) :
        cacheCalls[i].call.kind = "MethodCall" /\ cacheCalls[i].call.method \in Cacheable}

\* The (method, params) key a call requests.
KeyOf(i) == <<cacheCalls[i].call.method, cacheCalls[i].call.params>>

CallsFor(k) == {i \in CacheableCalls : KeyOf(i) = k}

RequestedKeys == {KeyOf(i) : i \in CacheableCalls}

\* next was invoked for the call.
Chained(i) == cacheCalls[i].action \in {"Next", "NextAndCache"}

FirstOf(S) == CHOOSE i \in S : \A j \in S : i <= j

\* The calls for k came back to back (none arrived while an earlier one for
\* the same key was unresolved) and all inside the eviction window opened
\* by the first of them.
BackToBackInWindow(k) ==
    \A i \in CallsFor(k) :
        /\ ~cacheCalls[i].overlap
        /\ cacheCalls[i].at < cacheCalls[FirstOf(CallsFor(k))].at + EvictionSecs

\* C5: with caching enabled, back-to-back calls for one (method, params) key
\* inside the eviction window invoke next once and get identical responses;
\* over all cacheable calls next is invoked once per distinct key (so the
\* same method with different params is chained once per params).
C5_OneUpstreamCallPerKey ==
    cacheEnabled =>
        /\ \A k \in RequestedKeys :
              BackToBackInWindow(k) =>
                  /\ Cardinality({i \in CallsFor(k) : Chained(i)}) = 1
                  /\ \A i, j \in CallsFor(k) :
                        (cacheCalls[i].st = "done" /\ cacheCalls[j].st = "done")
                            => cacheCalls[i].out = cacheCalls[j].out
        /\ (\A k \in RequestedKeys : BackToBackInWindow(k)) =>
              Cardinality({i \in CacheableCalls : Chained(i)}) = Cardinality(RequestedKeys)

\* Two identical calls were answered from one upstream call and a call with
\* other params was chained too: two upstream calls for two keys.
C5_Witness ==
    /\ cacheEnabled
    /\ \A k \in RequestedKeys : BackToBackInWindow(k)
    /\ \E i, j, l \in CacheableCalls :
          /\ i < j
          /\ KeyOf(i) = KeyOf(j)
          /\ KeyOf(l) # KeyOf(i)
          /\ cacheCalls[i].st = "done"
          /\ cacheCalls[j].action = "Return"
          /\ IsSome(cacheCalls[j].out)
          /\ Chained(l)

\* C6: a response served from the cache carries the id of the call it
\* answers.
C6_HitCarriesCallId ==
    \A i \in CacheableCalls :
        (cacheCalls[i].action = "Return" /\ IsSome(cacheCalls[i].out))
            => Unwrap(cacheCalls[i].out).id = Unwrap(cacheCalls[i].call.id)

\* C7: a cacheable call is answered from the cache exactly when it finds an
\* entry whose deadline is still ahead (now < deadline); a call that finds
\* no entry or an expired one is chained to next, and its resolution
\* installs (response, miss time + eviction window) under its key.
C7_ServedOnlyWhileFresh ==
    cacheEnabled =>
        /\ \A i \in CacheableCalls :
              /\ (cacheCalls[i].action = "Return") <=>
                    (IsSome(cacheCalls[i].seen)
                     /\ cacheCalls[i].at < Unwrap(cacheCalls[i].seen).deadline)
              /\ cacheCalls[i].action = "Return" =>
                    cacheCalls[i].out = Unwrap(cacheCalls[i].seen).result
              /\ cacheCalls[i].action # "Return" => Chained(i)
        /\ \A k \in CacheKeys :
              LET resolved == {i \in CallsFor(k) :
                                  Chained(i) /\ cacheCalls[i].st = "done"}
              IN  IF resolved = {}
                  THEN cached[k] = None
                  ELSE \E i \in resolved :
                          cached[k] = Some([result |-> cacheCalls[i].out,
                                            deadline |-> cacheCalls[i].at + EvictionSecs])

\* A miss, a hit inside the window, then after the window one more miss
\* that went to next and installed a new entry.
C7_Witness ==
    \E i, j, l \in CacheableCalls :
        /\ i < j /\ j < l
        /\ KeyOf(i) = KeyOf(j) /\ KeyOf(j) = KeyOf(l)
        /\ cacheCalls[i].action = "NextAndCache"
        /\ cacheCalls[j].action = "Return"
        /\ cacheCalls[l].action = "NextAndCache"
        /\ IsSome(cacheCalls[l].seen)
        /\ cacheCalls[l].st = "done"
        /\ cached[KeyOf(l)] = Some([result |-> cacheCalls[l].out,
                                    deadline |-> cacheCalls[l].at + EvictionSecs])

\* C8: with caching disabled every call is chained to next and the cache
\* map is neither read nor written.
C8_DisabledForwardsAll ==
    ~cacheEnabled =>
        /\ \A i \in 1..Len(cacheCalls) : Chained(i) /\ ~cacheCalls[i].read
        /\ \A k \in CacheKeys : cached[k] = None

\* Caching is off and two identical calls of a cacheable method both went
\* to next and resolved.
C8_Witness ==
    /\ ~cacheEnabled
    /\ \E i, j \in CacheableCalls :
          /\ i < j
          /\ KeyOf(i) = KeyOf(j)
          /\ cacheCalls[i].st = "done" /\ cacheCalls[j].st = "done"
          /\ Chained(i) /\ Chained(j)

\* The call this step adds to cacheCalls.
NewCacheCall == cacheCalls'[Len(cacheCalls')]

\* This step resolves the chained miss i.
MissResolves(i) ==
    /\ cacheCalls[i].action = "NextAndCache"
    /\ cacheCalls[i].st = "inflight"
    /\ cacheCalls'[i].st = "done"

\* C38: the deadline of an entry is the instant of the miss plus the
\* eviction window, fixed before next is invoked: the entry a miss installs
\* carries that deadline however long next took, so when next took the
\* window or longer the entry is stale from the start, and a miss that
\* resolves after a later one replaces the later one's entry with one
\* whose deadline is not later.
C38_DeadlineFromMissTime ==
    [][cacheEnabled =>
          /\ (/\ Len(cacheCalls') = Len(cacheCalls) + 1
              /\ NewCacheCall.action = "NextAndCache")
                => NewCacheCall.meta = Some(cacheNow + EvictionSecs)
          /\ \A i \in 1..Len(cacheCalls) :
                MissResolves(i) =>
                    LET e == Unwrap(cached'[Unwrap(cacheCalls[i].hash)])
                    IN  /\ e.deadline = cacheCalls[i].at + EvictionSecs
                        /\ (cacheNow >= cacheCalls[i].at + EvictionSecs)
                              => ~is_fresh(cacheNow, e.deadline)
                        /\ \A j \in (i + 1)..Len(cacheCalls) :
                              (/\ cacheCalls[j].hash = cacheCalls[i].hash
                               /\ cacheCalls[j].action = "NextAndCache"
                               /\ cacheCalls[j].st = "done")
                                 => e.deadline <= cacheCalls[j].at + EvictionSecs]_vars

\* A miss made at 0 resolved when the window had passed: its entry was
\* stale when installed, and it replaced the fresh entry of a miss made
\* after it.
C38_Witness ==
    \E i, j \in CacheableCalls :
        /\ i < j
        /\ KeyOf(i) = KeyOf(j)
        /\ cacheCalls[i].action = "NextAndCache"
        /\ cacheCalls[j].action = "NextAndCache"
        /\ cacheCalls[i].st = "done"
        /\ cacheCalls[j].st = "done"
        /\ cacheCalls[i].at < cacheCalls[j].at
        /\ cached[KeyOf(i)] = Some([result |-> cacheCalls[i].out,
                                    deadline |-> cacheCalls[i].at + EvictionSecs])
        /\ ~is_fresh(cacheNow, Unwrap(cached[KeyOf(i)]).deadline)
        /\ is_fresh(cacheNow, cacheCalls[j].at + EvictionSecs)

\* An output that is no Success: a Failure, or none at all.
NotSuccess(out) == out = None \/ Unwrap(out).kind = "Failure"

\* C37: a chained miss installs the output next resolved to whatever its
\* kind, a Failure and no output included, and a call that finds such an
\* entry inside its window is answered with it and not chained.
C37_FailureCachedLikeSuccess ==
    /\ [][cacheEnabled =>
             \A i \in 1..Len(cacheCalls) :
                 (/\ cacheCalls[i].action = "NextAndCache"
                  /\ cacheCalls[i].st = "inflight"
                  /\ cacheCalls'[i].st = "done"
                  /\ NotSuccess(cacheCalls'[i].out))
                    => cached'[Unwrap(cacheCalls[i].hash)] =
                           Some([result |-> cacheCalls'[i].out,
                                 deadline |-> Unwrap(cacheCalls[i].meta)])]_vars
    /\ [](cacheEnabled =>
             \A j \in CacheableCalls :
                 (/\ IsSome(cacheCalls[j].seen)
                  /\ NotSuccess(Unwrap(cacheCalls[j].seen).result)
                  /\ cacheCalls[j].at < Unwrap(cacheCalls[j].seen).deadline)
                    => /\ cacheCalls[j].action = "Return"
                       /\ cacheCalls[j].st = "done"
                       /\ cacheCalls[j].out = Unwrap(cacheCalls[j].seen).result
                       /\ ~Chained(j))

\* One call was chained and resolved to a Failure; two identical calls made
\* inside the window were answered with that Failure and next was invoked
\* once.
C37_Witness ==
    \E i, j, l \in CacheableCalls :
        /\ i < j /\ j < l
        /\ KeyOf(i) = KeyOf(j) /\ KeyOf(j) = KeyOf(l)
        /\ Chained(i)
        /\ IsSome(cacheCalls[i].out)
        /\ Unwrap(cacheCalls[i].out).kind = "Failure"
        /\ cacheCalls[j].action = "Return"
        /\ cacheCalls[l].action = "Return"
        /\ cacheCalls[j].out = cacheCalls[i].out
        /\ cacheCalls[l].out = cacheCalls[i].out

\* A call was answered from the cache with no output at all.
NullServedFromCache ==
    \E i, j \in CacheableCalls :
        /\ i < j
        /\ KeyOf(i) = KeyOf(j)
        /\ Chained(i)
        /\ cacheCalls[i].st = "done"
        /\ cacheCalls[i].out = None
        /\ cacheCalls[j].action = "Return"
        /\ cacheCalls[j].out = None

---------------------------------------------------------------------------
(***************************************************************************)
(* Upstream correlation                                                    *)
(***************************************************************************)

\* C1: a caller whose request never shared its id with another request in
\* flight upstream resolves with the response frame upstream sent for its
\* own request and is not cancelled, in whatever order upstream answers;
\* and any frame a caller resolves with carries the id of its request.
C1_ResponsesMatchedById ==
    \A c \in 1..Len(upCalls) :
        /\ upCalls[c].st = "ok" => Unwrap(upCalls[c].resp).id = upCalls[c].id
        /\ ~upCalls[c].clash =>
              /\ upCalls[c].st # "cancelled"
              /\ upCalls[c].st = "ok" => Unwrap(upCalls[c].resp).req = upCalls[c].frame

\* Two requests with different ids are in flight and upstream answered the
\* later one first.
C1_Witness ==
    \E c1, c2 \in 1..Len(upCalls) :
        /\ c1 < c2
        /\ ~upCalls[c1].clash /\ ~upCalls[c2].clash
        /\ upCalls[c1].id # upCalls[c2].id
        /\ upCalls[c1].st = "wait" /\ upCalls[c1].frame \notin upAnswered
        /\ upCalls[c1].frame > 0
        /\ upCalls[c2].st = "ok"
        /\ Unwrap(upCalls[c2].resp).req = upCalls[c2].frame

\* C2: a notification for subscription s reaches only the sink of the
\* session whose subscribe call was answered with s, and it does reach that
\* sink while the session is alive and s has not been unsubscribed.
C2_NotificationsToSubscriber ==
    IsSome(upLastNotif) =>
        LET n == Unwrap(upLastNotif)
        IN  /\ n.to \subseteq n.owners
            /\ n.live => (n.to = n.owners /\ Cardinality(n.to) = 1)

\* A notification was pushed to its subscriber while the other session is
\* alive and holds a subscription of its own.
C2_Witness ==
    /\ IsSome(upLastNotif)
    /\ Unwrap(upLastNotif).live
    /\ \E s \in SubIds :
          /\ s # Unwrap(upLastNotif).sub
          /\ IsSome(upSubs[s])
          /\ ~sessDropped[Unwrap(upSubs[s])]
          /\ Unwrap(upSubs[s]) \notin Unwrap(upLastNotif).to

\* Session sess subscribed, was answered with subscription s and was
\* dropped, and no client asked to unsubscribe s.
SubscribedThenDropped(sess, s) ==
    /\ s \in 1..upSubCounter
    /\ sess \in SubscribersOf(s)
    /\ sessDropped[sess]
    /\ \A c \in 1..Len(upCalls) :
          ~(upCalls[c].method = Subscription.unsubscribe /\ upCalls[c].params = <<s>>)

\* The frames written upstream whose first parameter is s.
FramesFor(s) ==
    {k \in 1..Len(upWire) : upWire[k].params # << >> /\ upWire[k].params[1] = s}

\* Exactly one frame for s went upstream, the descriptor's unsubscribe
\* method with s as its only parameter, and the hook for s ran once.
OneUnsubscribe(s) ==
    /\ Cardinality(FramesFor(s)) = 1
    /\ \A k \in FramesFor(s) :
          /\ upWire[k].method = Subscription.unsubscribe
          /\ upWire[k].params = <<s>>
    /\ hookRuns[s] = 1

\* C3: when a session that subscribed and was answered with s is dropped
\* without an explicit unsubscribe, exactly one unsubscribe call for s is
\* sent upstream, with the descriptor's unsubscribe method and s as its only
\* parameter, and the on-drop hook fires once.
C3_OneUnsubscribeOnDrop ==
    \A sess \in Sessions : \A s \in SubIds :
        SubscribedThenDropped(sess, s) => OneUnsubscribe(s)

\* As long as no thread waits for Shared.pending while holding it, C3 holds.
OneUnsubscribeOnDropUnlessStuck ==
    upStuck = "none" =>
        \A sess \in Sessions : \A s \in SubIds :
            SubscribedThenDropped(sess, s) => OneUnsubscribe(s)

\* A session was dropped and its subscription was unsubscribed upstream.
UnsubscribedOnDrop ==
    \E sess \in Sessions : \E s \in SubIds :
        SubscribedThenDropped(sess, s) /\ OneUnsubscribe(s)

\* C11: the output the proxy returns for a call is the output upstream
\* produced for the request of that call, whatever calls other clients make
\* meanwhile: the call's future is not cancelled and resolves with the
\* response to its own frame.
C11_ProxyOutputIsUpstreamOutput ==
    \A c \in 1..Len(upCalls) :
        upCalls[c].frame > 0 =>
            /\ upCalls[c].st # "cancelled"
            /\ upCalls[c].st = "ok" =>
                  Unwrap(on_call_output(upCalls[c])).req = upCalls[c].frame

\* The call a step of ClientCall has added.
NewCall == upCalls'[Len(upCalls')]

\* C12: a subscribe call without a session fails at once: its future holds
\* an error, which the passthrough turns into no output, and the step writes
\* no frame, creates no pending entry and registers no subscription or hook.
C12_SubscribeWithoutSessionFailsFast ==
    [][(/\ Len(upCalls') = Len(upCalls) + 1
        /\ NewCall.sess = NoSession
        /\ NewCall.method = Subscription.subscribe)
          => /\ NewCall.st = "err"
             /\ on_call_output(NewCall) = None
             /\ UNCHANGED <<upPending, upSubs, upWire, sessHooks>>]_vars

\* A subscribe call without a session failed while the call of a session
\* is pending upstream.
C12_Witness ==
    \E c, d \in 1..Len(upCalls) :
        /\ upCalls[c].sess = NoSession
        /\ upCalls[c].method = Subscription.subscribe
        /\ upCalls[c].st = "err"
        /\ upCalls[d].sess # NoSession
        /\ upCalls[d].st = "wait"
        /\ IsSome(upPending[upCalls[d].id])

\* C16: once the upstream connection is torn down, no caller whose frame
\* was written still waits: the receiver of every entry that was pending has
\* resolved and the request has failed.
C16_PendingAbandonedOnDisconnect ==
    ~upConnected =>
        \A c \in 1..Len(upCalls) :
            upCalls[c].frame > 0 => upCalls[c].st # "wait"

\* The notification frame a step of UpstreamNotify has processed.
NewNotif == upEmitted'[Len(upEmitted')]

\* The weak reference stored for subscription s does not upgrade.
UpgradeFails(s) == IsSome(upSubs[s]) /\ sessDropped[Unwrap(upSubs[s])]

\* C17: the dispatch of a notification frame changes neither pending nor the
\* subscriptions nor the hooks; for an unknown subscription id nothing is
\* pushed to any session and the reader goes on; when the weak reference
\* does not upgrade nothing is pushed and the entry stays; and an entry
\* leaves the table only through remove_subscription.
C17_NotifyLeavesTableAlone ==
    [][/\ Len(upEmitted') = Len(upEmitted) + 1 =>
             /\ UNCHANGED <<upPending, upSubs, sessHooks, hookRuns, unsubscribed>>
             /\ ~IsSome(upSubs[NewNotif.sub]) =>
                   (UNCHANGED <<sessSink, upStuck, upConnected>> /\ NewNotif.to = {})
             /\ UpgradeFails(NewNotif.sub) =>
                   (UNCHANGED sessSink /\ NewNotif.to = {}
                    /\ IsSome(upSubs'[NewNotif.sub]))
       /\ \A s \in SubIds :
             (IsSome(upSubs[s]) /\ ~IsSome(upSubs'[s])) => s \in unsubscribed']_vars

\* A notification found the entry of a session that was gone, the entry
\* stayed until the on-drop hook removed it, and the next notification for
\* the same id found no entry.
C17_Witness ==
    \E a, b \in 1..Len(upEmitted) :
        /\ a < b
        /\ upEmitted[a].sub = upEmitted[b].sub
        /\ upEmitted[a].known /\ upEmitted[a].to = {} /\ upEmitted[a].owners # {}
        /\ ~upEmitted[b].known /\ upEmitted[b].to = {}
        /\ upStuck = "none"

\* C18: the notifications in a session's sink are in the order upstream
\* emitted them, none twice, each the frame upstream emitted; and every
\* notification emitted while the subscriber was alive and subscribed is in
\* the subscriber's sink.
C18_NotificationsInOrder ==
    /\ \A x \in Sessions : \A p, q \in 1..Len(sessSink[x]) :
          /\ p < q => sessSink[x][p].seq < sessSink[x][q].seq
          /\ sessSink[x][p].seq \in 1..Len(upEmitted)
          /\ upEmitted[sessSink[x][p].seq].sub = sessSink[x][p].sub
    /\ \A n \in 1..Len(upEmitted) :
          upEmitted[n].live =>
              \A x \in upEmitted[n].owners :
                  \E p \in 1..Len(sessSink[x]) :
                      sessSink[x][p] = [sub |-> upEmitted[n].sub, seq |-> n]

\* Two notifications of one subscription reached the sink of its live
\* subscriber.
C18_Witness ==
    \E x \in Sessions :
        /\ Len(sessSink[x]) = 2
        /\ sessSink[x][1].sub = sessSink[x][2].sub
        /\ upEmitted[1].live /\ upEmitted[2].live

\* The subscribe calls of session x that resolved with subscription s.
Announcing(x, s) ==
    {c \in 1..Len(upCalls) :
        /\ upCalls[c].sess = x
        /\ upCalls[c].method = Subscription.subscribe
        /\ upCalls[c].st = "ok"
        /\ Unwrap(upCalls[c].resp).result = s}

\* C19: a client receives no notification for subscription s before the
\* response of the subscribe call that announced s.
C19_ResponseBeforeNotifications ==
    \A x \in Sessions : \A p \in 1..Len(clientGot[x]) :
        clientGot[x][p].kind = "notification" =>
            \E q \in 1..(p - 1) :
                /\ clientGot[x][q].kind = "response"
                /\ clientGot[x][q].call \in Announcing(x, clientGot[x][p].sub)

\* A notification is pushed to the sink of a connected session only after
\* the future of the session's subscribe call has resolved with its
\* subscription id.
SinkAfterAnnouncement ==
    \A x \in Sessions :
        sessOpen[x] =>
            \A p \in 1..Len(sessSink[x]) : Announcing(x, sessSink[x][p].sub) # {}

\* The positions of the wire whose response frame this step dispatches.
Dispatched == {k \in 1..Len(upWire) : k \notin upAnswered /\ k \in upAnswered'}

\* C22: an id has one entry at most (pending is a map); a call that is sent
\* leaves its entry under its id; the dispatch of a response frame removes
\* the entry found under the frame's id and resolves its caller with the
\* frame; a frame that finds no entry changes no call, no subscription and
\* no sink; a call that has its response never gets another.
C22_PendingLifecycle ==
    [][/\ (Len(upCalls') = Len(upCalls) + 1 /\ NewCall.frame > 0) =>
             /\ IsSome(upPending'[NewCall.id])
             /\ Unwrap(upPending'[NewCall.id]).caller = Len(upCalls')
       /\ \A k \in Dispatched :
             /\ IsSome(upPending[upWire[k].id]) =>
                   /\ upPending'[upWire[k].id] # upPending[upWire[k].id]
                   /\ upPending'[upWire[k].id] \in {None, Some(Regular(0))}
                   /\ (/\ Unwrap(upPending[upWire[k].id]).caller # 0
                       /\ upCalls[Unwrap(upPending[upWire[k].id]).caller].st = "wait"
                       /\ upStuck' = "none") =>
                         /\ upCalls'[Unwrap(upPending[upWire[k].id]).caller].st = "ok"
                         /\ Unwrap(upCalls'[Unwrap(upPending[upWire[k].id]).caller].resp).req = k
             /\ upPending[upWire[k].id] = None =>
                   UNCHANGED <<upPending, upCalls, upSubs, sessHooks, sessSink>>
       /\ \A c \in 1..Len(upCalls) :
             upCalls[c].st = "ok" =>
                 (upCalls'[c].st = "ok" /\ upCalls'[c].resp = upCalls[c].resp)]_vars

\* Two requests carried the same id and upstream answered both: the first
\* frame resolved the caller whose entry was in the table, the second frame
\* found no entry.
C22_Witness ==
    \E c, d \in 1..Len(upCalls) :
        /\ c # d
        /\ upCalls[c].id = upCalls[d].id
        /\ upCalls[c].frame \in upAnswered
        /\ upCalls[d].frame \in upAnswered
        /\ upCalls[c].st = "cancelled"
        /\ upCalls[d].st = "ok"
        /\ upPending[upCalls[c].id] = None

\* The on-drop hook for subscription s is registered with session x.
HasHook(hooks, x, s) == \E p \in 1..Len(hooks[x]) : hooks[x][p] = s

\* C27: when the response for an entry is dispatched and released to the
\* waiting caller, the caller's future holds that frame, for both kinds of
\* entry; for a Subscribe entry whose result parses as a subscription id
\* the subscription is registered by then, table entry and on-drop hook
\* (or the session went away in the same step and its hooks have removed
\* it again).  A notification for a subscription that was announced to a
\* caller and not unsubscribed since finds its entry in the table.
C27_RegisteredBeforeRelease ==
    [][/\ \A k \in Dispatched :
             LET e == upPending[upWire[k].id]
             IN  (/\ IsSome(e)
                  /\ Unwrap(e).caller # 0
                  /\ upCalls[Unwrap(e).caller].st = "wait"
                  /\ upStuck' = "none") =>
                    LET c == Unwrap(e).caller
                        s == Unwrap(upCalls'[c].resp).result
                    IN  /\ upCalls'[c].st = "ok"
                        /\ Unwrap(upCalls'[c].resp).req = k
                        /\ Unwrap(upCalls'[c].resp).id = upWire[k].id
                        /\ (Unwrap(e).kind = "Subscribe" /\ s # ErrorResult) =>
                              \/ /\ upSubs'[s] = Some(Unwrap(e).session)
                                 /\ HasHook(sessHooks', Unwrap(e).session, s)
                              \/ /\ sessDropped'[Unwrap(e).session]
                                 /\ s \in unsubscribed'
                                 /\ hookRuns'[s] = hookRuns[s] + 1
                        /\ Unwrap(e).kind = "Regular" =>
                              (upSubs' = upSubs /\ sessHooks' = sessHooks)
       /\ (/\ Len(upEmitted') = Len(upEmitted) + 1
           /\ NewNotif.owners # {}
           /\ NewNotif.sub \notin unsubscribed) => NewNotif.known]_vars

\* A session's subscribe call has its response, the subscription is in the
\* table with its hook, and a notification emitted afterwards found it and
\* went to the session.
C27_Witness ==
    \E c \in 1..Len(upCalls) :
        /\ upCalls[c].method = Subscription.subscribe
        /\ upCalls[c].st = "ok"
        /\ Unwrap(upCalls[c].resp).result > 0
        /\ upSubs[Unwrap(upCalls[c].resp).result] = Some(upCalls[c].sess)
        /\ HasHook(sessHooks, upCalls[c].sess, Unwrap(upCalls[c].resp).result)
        /\ IsSome(upLastNotif)
        /\ Unwrap(upLastNotif).sub = Unwrap(upCalls[c].resp).result
        /\ Unwrap(upLastNotif).known
        /\ Unwrap(upLastNotif).to = {upCalls[c].sess}

\* A Subscribe entry was answered after its session's connection had
\* closed: the subscription was registered and removed by the hook in the
\* same step.
RegisteredAndDroppedAtOnce ==
    \E c \in 1..Len(upCalls) :
        /\ upCalls[c].method = Subscription.subscribe
        /\ upCalls[c].st = "ok"
        /\ Unwrap(upCalls[c].resp).result > 0
        /\ sessDropped[upCalls[c].sess]
        /\ hookRuns[Unwrap(upCalls[c].resp).result] = 1

\* This step is a client's unsubscribe call.
NewUnsubscribe ==
    /\ Len(upCalls') = Len(upCalls) + 1
    /\ NewCall.method = Subscription.unsubscribe

\* C28: an unsubscribe call whose first parameter is a subscription id
\* removes the table entry of that id, and the call is written to upstream
\* as a regular request; from then on a notification for the id reaches no
\* session.  Without a first parameter, or with one that is no
\* subscription id, the table is unchanged and the call is written all the
\* same.
C28_UnsubscribeRemovesThenSends ==
    [][/\ NewUnsubscribe =>
             /\ IF NewCall.params # << >> /\ NewCall.params[1] # NotAnId
                THEN /\ upSubs'[NewCall.params[1]] = None
                     /\ NewCall.params[1] \in unsubscribed'
                     /\ \A s \in SubIds \ {NewCall.params[1]} : upSubs'[s] = upSubs[s]
                ELSE upStuck' = "none" => upSubs' = upSubs
             /\ (upStuck' = "none" /\ upConnected) =>
                   /\ upWire' = Append(upWire, Frame(NewCall.id, NewCall.method,
                                                     NewCall.params, Len(upCalls')))
                   /\ upPending'[NewCall.id] = Some(Regular(Len(upCalls')))
       /\ (Len(upEmitted') = Len(upEmitted) + 1 /\ NewNotif.sub \in unsubscribed) =>
             (NewNotif.to = {} /\ sessSink' = sessSink)]_vars

\* A session subscribed, the subscription was unsubscribed by a call, and a
\* notification for it that upstream emitted afterwards reached no session.
C28_Witness ==
    /\ \E c \in 1..Len(upCalls) :
          /\ upCalls[c].method = Subscription.unsubscribe
          /\ upCalls[c].params = <<1>>
          /\ upCalls[c].frame > 0
    /\ upSubs[1] = None
    /\ hookRuns[1] = 0
    /\ IsSome(upLastNotif)
    /\ Unwrap(upLastNotif).sub = 1
    /\ Unwrap(upLastNotif).owners # {}
    /\ Unwrap(upLastNotif).to = {}

\* An unsubscribe call without a usable first parameter went upstream while
\* a subscription was registered, and the subscription is still there.
UnparseableUnsubscribeForwarded ==
    \E c \in 1..Len(upCalls) :
        /\ upCalls[c].method = Subscription.unsubscribe
        /\ upCalls[c].params \in {<< >>, <<NotAnId>>}
        /\ upCalls[c].frame > 0
        /\ upWire[upCalls[c].frame].params = upCalls[c].params
        /\ IsSome(upSubs[1])

\* C29: a call whose method is a configured subscribe method is handled by
\* the transport's subscribe, also when the name is a configured
\* unsubscribe method too; else a configured unsubscribe method by
\* unsubscribe; every other call, one without method name included, by
\* send.  next is never invoked, and a call whose transport future failed
\* resolves with no output.
C29_RouteByMethod ==
    [][/\ (Len(upCalls') = Len(upCalls) + 1 /\ upStuck' = "none") =>
             LET me == Len(upCalls')
             IN  /\ ~NewCall.chained
                 /\ IF NewCall.method \in {"eth_subscribe", "parity_subscribe"}
                    THEN IF NewCall.sess = NoSession
                         THEN NewCall.st = "err" /\ upPending' = upPending /\ upWire' = upWire
                         ELSE /\ upPending'[NewCall.id] = Some(Subscribe(me, NewCall.sess))
                              /\ upSubs' = upSubs
                    ELSE IF NewCall.method = "eth_unsubscribe"
                    THEN /\ upPending'[NewCall.id] = Some(Regular(me))
                         /\ (NewCall.params # << >> /\ NewCall.params[1] # NotAnId) =>
                               NewCall.params[1] \in unsubscribed'
                    ELSE /\ upPending'[NewCall.id] = Some(Regular(me))
                         /\ upSubs' = upSubs
                         /\ unsubscribed' = unsubscribed
       /\ \A c \in 1..Len(upCalls') :
             upCalls'[c].st \in {"err", "cancelled"} => on_call_output(upCalls'[c]) = None]_vars

\* eth_subscribe, which both maps hold, was handled as a subscribe (its
\* subscription is registered for the caller's session), and an invalid
\* call with a parameter went upstream by send.
C29_Witness ==
    /\ "eth_subscribe" \in subscribe_methods \cap unsubscribe_methods
    /\ \E c \in 1..Len(upCalls) :
          /\ upCalls[c].method = "eth_subscribe"
          /\ upCalls[c].st = "ok"
          /\ Unwrap(upCalls[c].resp).result > 0
          /\ upSubs[Unwrap(upCalls[c].resp).result] = Some(upCalls[c].sess)
    /\ \E d \in 1..Len(upCalls) :
          /\ upCalls[d].method = NoMethod
          /\ upCalls[d].frame > 0
          /\ upCalls[d].frame \in upAnswered

\* C30: the id of an automatic unsubscribe call is fresh: when its frame is
\* written, no request written before it and still unanswered carries the
\* same id, and no waiting caller loses its pending entry to it.
C30_AutoUnsubscribeIdFresh ==
    [][\A k \in (Len(upWire) + 1)..Len(upWire') :
          upWire'[k].caller = 0 =>
              /\ \A j \in 1..(k - 1) :
                    j \notin upAnswered' => upWire'[j].id # upWire'[k].id
              /\ \A c \in 1..Len(upCalls) :
                    (upCalls[c].st = "wait" /\ upCalls[c].id = upWire'[k].id)
                        => upCalls'[c].st # "cancelled"]_vars

\* An automatic unsubscribe took the pending entry of a client's call that
\* used the same id: the call was cancelled and the response upstream sent
\* for it later found the entry of the automatic unsubscribe.
AutoUnsubscribeTookEntry ==
    \E c \in 1..Len(upCalls) : \E k \in 1..Len(upWire) :
        /\ upCalls[c].st = "cancelled"
        /\ upCalls[c].id = AutoUnsubscribeId
        /\ upCalls[c].frame < k
        /\ upCalls[c].frame \in upAnswered
        /\ upWire[k].caller = 0
        /\ k \notin upAnswered
        /\ upPending[AutoUnsubscribeId] = None

\* No other request on the wire carries the id of request k.
IdUsedOnce(k) ==
    \A j \in 1..Len(upWire) : j # k => upWire[j].id # upWire[k].id

Written == (Len(upWire) + 1)..Len(upWire')

\* The waiting call whose entry is stored under the id.
WaitingOwner(id) ==
    {e \in 1..Len(upCalls) :
        /\ upCalls[e].st = "wait"
        /\ upPending[id] # None
        /\ Unwrap(upPending[id]).caller = e}

\* C33: a request written with an id that a waiting call has an entry for
\* (a client call or an automatic unsubscribe, whose id is 1) replaces
\* that entry: the earlier call resolves as cancelled with no output, its
\* frame stays written and the new frame is written too; a response frame
\* resolves no call but the one whose request was written last with the
\* frame's id.
C33_SameIdReplaces ==
    [][/\ \A k \in Written : \A e \in WaitingOwner(upWire'[k].id) :
             (e # upWire'[k].caller /\ \A j \in Dispatched : upWire[j].id # upWire'[k].id) =>
                 /\ upCalls'[e].st = "cancelled"
                 /\ upCalls'[e].resp = None
                 /\ upWire'[upCalls[e].frame].id = upWire'[k].id
                 /\ upWire'[upCalls[e].frame].caller = e
                 /\ Unwrap(upPending'[upWire'[k].id]).caller # e
       /\ \A c \in 1..Len(upCalls) :
             (upCalls[c].st # "ok" /\ upCalls'[c].st = "ok") =>
                 /\ \E k \in Dispatched : upWire[k].id = upCalls[c].id
                 /\ Unwrap(upCalls'[c].resp).id = upCalls[c].id
                 /\ \A j \in 1..Len(upWire) :
                       j > upCalls[c].frame => upWire[j].id # upCalls[c].id
       /\ \A c \in 1..Len(upCalls) :
             upCalls[c].st = "cancelled" => upCalls'[c] = upCalls[c]]_vars

\* Two client calls of different sessions carried the same id: the earlier
\* one is cancelled, both frames were written, and the response to the
\* earlier frame went to the later caller.
C33_Witness ==
    \E c, d \in 1..Len(upCalls) :
        /\ c < d
        /\ upCalls[c].sess # upCalls[d].sess
        /\ upCalls[c].id = upCalls[d].id
        /\ upCalls[c].st = "cancelled"
        /\ upCalls[c].resp = None
        /\ upCalls[d].st = "ok"
        /\ Unwrap(upCalls[d].resp).req = upCalls[c].frame
        /\ upCalls[d].frame \notin upAnswered

\* An automatic unsubscribe took the entry of a waiting client call with
\* id 1.
CancelledByAutoUnsubscribe ==
    \E c \in 1..Len(upCalls) :
        /\ upCalls[c].st = "cancelled"
        /\ upCalls[c].id = AutoUnsubscribeId
        /\ \A d \in 1..Len(upCalls) : d # c => upCalls[d].id # upCalls[c].id
        /\ \E k \in 1..Len(upWire) : upWire[k].caller = 0 /\ k > upCalls[c].frame

\* The automatic unsubscribe frames on the wire.
AutoUnsubscribes == {k \in 1..Len(upWire) : upWire[k].caller = 0}

\* C34: a response without a subscription id (a Failure) that meets a
\* Subscribe entry removes the entry, registers no subscription and no
\* on-drop hook for the entry's session and is forwarded to the caller as
\* it came; every automatic unsubscribe on the wire names a subscription id
\* that a response carried, so the drop of the session sends none for the
\* failed subscribe.
C34_FailedSubscribeRegistersNothing ==
    /\ [][\A k \in Dispatched :
             LET found == upPending[upWire[k].id]
             IN  (/\ IsSome(found)
                  /\ Unwrap(found).kind = "Subscribe"
                  /\ upSubCounter' = upSubCounter
                  /\ upWire[k].method = Subscription.subscribe
                  /\ upStuck' = "none") =>
                     /\ upPending'[upWire[k].id] # found
                     /\ \A s \in SubIds :
                           (upSubs'[s] # None) => (upSubs'[s] = upSubs[s])
                     /\ \A x \in Sessions :
                           sessHooks'[x] \in {sessHooks[x], << >>}
                     /\ upCalls'[Unwrap(found).caller].st = "ok"
                     /\ upCalls'[Unwrap(found).caller].resp
                            = Some([id |-> upWire[k].id, req |-> k, result |-> ErrorResult])]_vars
    /\ [](upStuck = "none" =>
             \A k \in AutoUnsubscribes :
                 \E c \in 1..Len(upCalls) :
                     /\ upCalls[c].st = "ok"
                     /\ Unwrap(upCalls[c].resp).result # ErrorResult
                     /\ upWire[k].params = <<Unwrap(upCalls[c].resp).result>>)

\* A subscribe was answered with a Failure, the caller has the Failure,
\* the session was dropped afterwards and nothing but the subscribe was
\* ever written upstream.
C34_Witness ==
    \E c \in 1..Len(upCalls) :
        /\ upCalls[c].method = Subscription.subscribe
        /\ upCalls[c].st = "ok"
        /\ Unwrap(upCalls[c].resp).result = ErrorResult
        /\ Unwrap(upCalls[c].resp).req = upCalls[c].frame
        /\ upPending[upCalls[c].id] = None
        /\ sessDropped[upCalls[c].sess]
        /\ AutoUnsubscribes = {}
        /\ \A s \in SubIds : upSubs[s] = None /\ hookRuns[s] = 0

\* The unsubscribe requests for subscription s that upstream was sent:
\* those of client calls and the automatic ones.
ExplicitUnsubscribes(s) ==
    {k \in 1..Len(upWire) :
        /\ upWire[k].caller # 0
        /\ upWire[k].method = Subscription.unsubscribe
        /\ upWire[k].params = <<s>>}

AutomaticUnsubscribes(s) ==
    {k \in AutoUnsubscribes :
        upWire[k].method = Subscription.unsubscribe /\ upWire[k].params = <<s>>}

\* The session's subscribe call resolved with s, the session unsubscribed
\* from s by a call of its own, and then the session was dropped.
UnsubscribedThenDropped(sess, s) ==
    /\ sessDropped[sess]
    /\ \E c \in 1..Len(upCalls) :
          /\ upCalls[c].sess = sess
          /\ upCalls[c].method = Subscription.subscribe
          /\ upCalls[c].st = "ok"
          /\ Unwrap(upCalls[c].resp).result = s
          /\ \E k \in ExplicitUnsubscribes(s) :
                /\ k > upCalls[c].frame
                /\ upCalls[upWire[k].caller].sess = sess

UnsubscribedBy(s) ==
    {upCalls[upWire[k].caller].sess : k \in ExplicitUnsubscribes(s)}

\* C36: an unsubscribe call of one session leaves the notifications of the
\* other sessions alone: a notification for s is pushed to the session
\* that was answered with s as long as that session is alive and has not
\* itself unsubscribed from s.
C36_UnsubscribeIsolated ==
    [][Len(upEmitted') = Len(upEmitted) + 1 =>
          \A b \in NewNotif.owners :
              (/\ ~sessDropped[b]
               /\ ~NewNotif.failed
               /\ b \notin UnsubscribedBy(NewNotif.sub)) =>
                  b \in NewNotif.to]_vars

\* What holds: the notification reaches the subscriber as long as no
\* session at all has unsubscribed from s.
NotifiedUntilAnyUnsubscribe ==
    [][Len(upEmitted') = Len(upEmitted) + 1 =>
          \A b \in NewNotif.owners :
              (/\ ~sessDropped[b]
               /\ ~NewNotif.failed
               /\ UnsubscribedBy(NewNotif.sub) = {}) =>
                  b \in NewNotif.to]_vars

\* Session b was answered with s, another session unsubscribed from s, and
\* a notification for s emitted afterwards reached nobody while b was
\* connected.
ForeignUnsubscribeSilencedSubscriber ==
    /\ IsSome(upLastNotif)
    /\ \E b \in Unwrap(upLastNotif).owners :
          /\ sessOpen[b]
          /\ b \notin UnsubscribedBy(Unwrap(upLastNotif).sub)
          /\ UnsubscribedBy(Unwrap(upLastNotif).sub) # {}
          /\ Unwrap(upLastNotif).to = {}

\* The policy's decision for a method call of the given name.
PolicyAllows(method) ==
    PermAction(permBase, permissioned, MethodCall(Some("2.0"), 1, method)) = "Next"

\* C39: every request handed to the transport, be it a client's call passed
\* on or a request made by the signing middleware, has a method name the
\* permissioning policy allows.
C39_UpstreamCallsPermitted ==
    /\ \A k \in 1..Len(signSent) : PolicyAllows(signSent[k].method)
    /\ \A i \in 1..Len(signCalls) :
          (IsSome(signCalls[i].fwd) /\ Unwrap(signCalls[i].fwd).kind = "MethodCall") =>
              PolicyAllows(Unwrap(Unwrap(signCalls[i].fwd).method))

\* What holds: every client call the signing middleware received was let
\* through by permissioning under the name the client used, and a call it
\* passes on unchanged has an allowed method name.
ClientCallsPermitted ==
    \A i \in 1..Len(signCalls) :
        /\ PermAction(permBase, permissioned, signCalls[i].call) = "Next"
        /\ (IsSome(signCalls[i].fwd) /\ Unwrap(signCalls[i].fwd).kind = "MethodCall") =>
              PolicyAllows(Unwrap(Unwrap(signCalls[i].fwd).method))

\* eth_sendRawTransaction is denied, eth_sendTransaction is not, and an
\* eth_sendRawTransaction request was handed to the transport.
DeniedMethodReachedUpstream ==
    /\ permissioned["eth_sendRawTransaction"] = Some("Deny")
    /\ \E k \in 1..Len(signSent) : signSent[k].method = "eth_sendRawTransaction"

\* A call was rejected by permissioning and never reached the signing
\* middleware.
RejectedBeforeSigning ==
    /\ permLog # << >>
    /\ signCalls = << >>
    /\ signSent = << >>

\* This step dispatches a notification frame and the send into the
\* session's channel fails.
NotifySendFailed ==
    Len(upEmitted') = Len(upEmitted) + 1 /\ NewNotif.failed

\* This step dispatches a response frame whose entry belongs to a caller
\* that is gone: the send into the one-shot channel fails.
ResponseSendFailed ==
    \E k \in Dispatched :
        /\ IsSome(upPending[upWire[k].id])
        /\ Unwrap(upPending[upWire[k].id]).caller # 0
        /\ upCalls[Unwrap(upPending[upWire[k].id]).caller].st = "gone"

\* C25: a sink send that fails while a frame is dispatched is abandoned and
\* the upstream reader keeps running: the connection is still up after the
\* step.
C25_SinkFailureAbandoned ==
    [][(NotifySendFailed \/ ResponseSendFailed) => upConnected']_vars

\* What holds: the failed send into the one-shot channel of a departed
\* caller is abandoned; the entry is removed, the caller stays gone and the
\* connection stays up.
OneShotFailureAbandoned ==
    [][\A k \in Dispatched :
          (/\ IsSome(upPending[upWire[k].id])
           /\ Unwrap(upPending[upWire[k].id]).caller # 0
           /\ upCalls[Unwrap(upPending[upWire[k].id]).caller].st = "gone")
            => /\ upConnected'
               /\ upPending'[upWire[k].id] \in {None, Some(Regular(0))}
               /\ upCalls'[Unwrap(upPending[upWire[k].id]).caller].st = "gone"]_vars

\* The response for a departed caller was dispatched.
DepartedCallerAnswered ==
    \E c \in 1..Len(upCalls) :
        upCalls[c].st = "gone" /\ upCalls[c].frame \in upAnswered

\* A notification met a channel without receiver and the connection to
\* upstream is gone with a request still unanswered.
ReaderEndedBySinkFailure ==
    /\ \E n \in 1..Len(upEmitted) : upEmitted[n].failed
    /\ ~upConnected
    /\ \E k \in 1..Len(upWire) : k \notin upAnswered

---------------------------------------------------------------------------
(***************************************************************************)
(* Signing lock                                                            *)
(***************************************************************************)

\* Call i's parity_composeTransaction request has been handed to upstream.
ComposeSent(i) ==
    \E k \in 1..Len(signSent) : signSent[k].owner = i /\ signSent[k].role = "compose"

\* Call j's eth_sendRawTransaction request has been handed to upstream.
RawSubmitted(j) ==
    \E k \in 1..Len(signSent) : signSent[k].owner = j /\ signSent[k].role = "raw"

\* Call j's future has produced a Failure.
FailureProduced(j) ==
    /\ IsSome(signCalls[j].out)
    /\ IsSome(Unwrap(signCalls[j].out))
    /\ Unwrap(Unwrap(signCalls[j].out)).kind = "Failure"

\* The compose requests upstream has not answered yet.
ComposeInFlight == {r \in signUp : r.role = "compose"}

\* A later holder's compose request is sent only once the previous holder's
\* completion channel has resolved, whatever made it resolve.
ComposeAfterPrevReleased ==
    \A i \in 1..Len(signCalls) :
        (ComposeSent(i) /\ IsSome(signCalls[i].prev))
            => ReceiverResolved(Unwrap(signCalls[i].prev))

\* At most one compose request is unanswered at any time.
OneComposeInFlight == Cardinality(ComposeInFlight) <= 1

\* A call that is not rewritten reaches next inside on_call, whoever holds
\* the lock.
PlainNeverWaits ==
    \A i \in 1..Len(signCalls) : signCalls[i].kind # "sign" => signCalls[i].chained

\* C4: the compose request of a later lock holder is sent only after the
\* previous holder's signing path has completed, that is after its
\* eth_sendRawTransaction was submitted or it produced a Failure; no two
\* compose requests are in flight at once; calls that are not rewritten are
\* not delayed by the lock.
C4_ComposeAfterPrevCompleted ==
    /\ \A i \in 1..Len(signCalls) :
          (ComposeSent(i) /\ IsSome(signCalls[i].prev))
              => \/ RawSubmitted(Unwrap(signCalls[i].prev))
                 \/ FailureProduced(Unwrap(signCalls[i].prev))
    /\ OneComposeInFlight
    /\ PlainNeverWaits

\* The previous holder panicked on an upstream request without output and
\* its successor's compose request went out.
ComposeAfterPanic ==
    \E i \in 1..Len(signCalls) :
        /\ ComposeSent(i) /\ IsSome(signCalls[i].prev)
        /\ signCalls[Unwrap(signCalls[i].prev)].pc = "panicked"

\* Outside a panic of the previous holder, C4's order holds.
ComposeAfterPrevCompletedUnlessPanic ==
    \A i \in 1..Len(signCalls) :
        (ComposeSent(i) /\ IsSome(signCalls[i].prev))
            => \/ RawSubmitted(Unwrap(signCalls[i].prev))
               \/ FailureProduced(Unwrap(signCalls[i].prev))
               \/ signCalls[Unwrap(signCalls[i].prev)].pc = "panicked"

\* A second holder waited for the first and a plain call went through
\* meanwhile.
SignSerialisedRun ==
    /\ Len(signCalls) = 2
    /\ signCalls[1].kind = "sign" /\ signCalls[2].kind = "sign"
    /\ ComposeSent(2) /\ RawSubmitted(1)

---------------------------------------------------------------------------
(***************************************************************************)
(* Signing path                                                            *)
(***************************************************************************)

\* The calls the middleware rewrites.
SignCalls == {i \in 1..Len(signCalls) : signCalls[i].kind = "sign"}

\* The positions in signSent of call i's requests of one role.
SentFor(i, role) ==
    {k \in 1..Len(signSent) : signSent[k].owner = i /\ signSent[k].role = role}

\* What upstream answered to a request of call i: o is composeOut, chainOut
\* or rawOut.
AnsweredSuccess(o, payload) ==
    /\ IsSome(o) /\ IsSome(Unwrap(o))
    /\ Unwrap(Unwrap(o)).kind = "Success"
    /\ Unwrap(Unwrap(o)).payload = payload

AnsweredFailure(o) ==
    IsSome(o) /\ IsSome(Unwrap(o)) /\ Unwrap(Unwrap(o)).kind = "Failure"

\* The async block of call i has run.
BlockRan(i) == signCalls[i].pc \in {"rawSent", "done", "panicked"}

\* The id the client gave its call.
OrigId(i) == Unwrap(signCalls[i].call.id)

\* C13: for a rewritten call with id i whose compose request is answered
\* with a transaction from the local address and whose eth_chainId request
\* is answered with a chain id, upstream sees exactly one
\* parity_composeTransaction and one eth_chainId and, after both, exactly one
\* eth_sendRawTransaction with id i and one parameter; the block does not
\* end any other way, and the call resolves with upstream's response to
\* that eth_sendRawTransaction.
C13_SignedSubmission ==
    \A i \in SignCalls :
        (/\ AnsweredSuccess(signCalls[i].composeOut, "tx_from_local")
         /\ AnsweredSuccess(signCalls[i].chainOut, "chain_id"))
          => /\ Cardinality(SentFor(i, "compose")) = 1
             /\ Cardinality(SentFor(i, "chain")) = 1
             /\ signCalls[i].pc \in {"composing", "rawSent", "done"}
             /\ Cardinality(SentFor(i, "raw")) =
                   (IF signCalls[i].pc = "composing" THEN 0 ELSE 1)
             /\ \A k \in SentFor(i, "raw") :
                   /\ \A j \in SentFor(i, "compose") \cup SentFor(i, "chain") : j < k
                   /\ signSent[k].method = "eth_sendRawTransaction"
                   /\ signSent[k].id = OrigId(i)
                   /\ Len(signSent[k].params) = 1
             /\ IsSome(signCalls[i].out) <=> signCalls[i].pc = "done"
             /\ signCalls[i].pc = "done" =>
                   /\ signCalls[i].out = signCalls[i].rawOut
                   /\ AnsweredSuccess(signCalls[i].rawOut, "tx_hash") =>
                         Unwrap(Unwrap(signCalls[i].out)).id = OrigId(i)

\* Two rewritten calls, one after the other, were both signed, submitted
\* and answered with a transaction hash.
C13_Witness ==
    /\ Len(signCalls) = 2
    /\ \A i \in 1..2 :
          /\ signCalls[i].kind = "sign"
          /\ AnsweredSuccess(signCalls[i].composeOut, "tx_from_local")
          /\ AnsweredSuccess(signCalls[i].chainOut, "chain_id")
          /\ signCalls[i].pc = "done"
          /\ AnsweredSuccess(signCalls[i].out, "tx_hash")

\* C14: when upstream answers the compose or the eth_chainId request of a
\* rewritten call with a Failure, the call resolves with that Failure under
\* the id the client gave (not the internal id), and no
\* eth_sendRawTransaction is sent.
C14_UpstreamFailureUnderOriginalId ==
    \A i \in SignCalls :
        (/\ BlockRan(i)
         /\ AnsweredFailure(signCalls[i].composeOut) \/ AnsweredFailure(signCalls[i].chainOut))
          => /\ AnsweredFailure(signCalls[i].out)
             /\ Unwrap(Unwrap(signCalls[i].out)).code = -32000
             /\ Unwrap(Unwrap(signCalls[i].out)).payload = "upstream_error"
             /\ Unwrap(Unwrap(signCalls[i].out)).id = OrigId(i)
             /\ SentFor(i, "raw") = {}

\* The Failure upstream gave for the compose request, or for the
\* eth_chainId request of a well-formed composed transaction, is what the
\* call resolves with, id included, and nothing is submitted.
UpstreamFailureForwardedVerbatim ==
    \A i \in SignCalls :
        BlockRan(i) =>
            /\ AnsweredFailure(signCalls[i].composeOut) =>
                  (signCalls[i].out = signCalls[i].composeOut /\ SentFor(i, "raw") = {})
            /\ (/\ \E p \in {"tx_from_local", "tx_from_other"} :
                       AnsweredSuccess(signCalls[i].composeOut, p)
                 /\ AnsweredFailure(signCalls[i].chainOut)) =>
                  (signCalls[i].out = signCalls[i].chainOut /\ SentFor(i, "raw") = {})

\* The call resolved with a locally built Failure: code 1, the client's id.
LocalFailure(i) ==
    /\ AnsweredFailure(signCalls[i].out)
    /\ Unwrap(Unwrap(signCalls[i].out)).code = 1
    /\ Unwrap(Unwrap(signCalls[i].out)).id = OrigId(i)

\* C15: when the composed transaction is from another address, or the
\* result of the compose or of the eth_chainId request cannot be
\* deserialised, the call resolves with a local Failure with code 1 under
\* the client's id, and no eth_sendRawTransaction is sent for it.
C15_LocalFailureCode1 ==
    \A i \in SignCalls :
        (/\ BlockRan(i)
         /\ \/ AnsweredSuccess(signCalls[i].composeOut, "tx_from_other")
            \/ AnsweredSuccess(signCalls[i].composeOut, "malformed")
            \/ AnsweredSuccess(signCalls[i].chainOut, "malformed"))
          => (LocalFailure(i) /\ SentFor(i, "raw") = {})

\* When both requests were answered with a Success, C15 holds; and an
\* undeserialisable composed transaction gives the local Failure whatever
\* the eth_chainId request yields.
LocalFailureWhenBothAnswered ==
    \A i \in SignCalls :
        BlockRan(i) =>
            /\ AnsweredSuccess(signCalls[i].composeOut, "malformed") =>
                  (LocalFailure(i) /\ SentFor(i, "raw") = {})
            /\ (/\ \E p \in {"tx_from_local", "tx_from_other"} :
                       AnsweredSuccess(signCalls[i].composeOut, p)
                 /\ \E q \in {"chain_id", "malformed"} :
                       AnsweredSuccess(signCalls[i].chainOut, q)
                 /\ \/ AnsweredSuccess(signCalls[i].composeOut, "tx_from_other")
                    \/ AnsweredSuccess(signCalls[i].chainOut, "malformed")) =>
                  (LocalFailure(i) /\ SentFor(i, "raw") = {})

\* The upstream closure yielded no output for the request.
NoOutput(answer) == answer = Some(None)

\* C24: when the upstream closure yields no output for the compose or the
\* eth_chainId request of a rewritten call, the call resolves with a
\* Failure or with no output; its task does not panic.
C24_TransportFailureSurfaced ==
    \A i \in SignCalls :
        (/\ BlockRan(i)
         /\ NoOutput(signCalls[i].composeOut) \/ NoOutput(signCalls[i].chainOut))
          => /\ signCalls[i].pc = "done"
             /\ \/ signCalls[i].out = Some(None)
                \/ Unwrap(Unwrap(signCalls[i].out)).kind = "Failure"

\* What holds: no output for a request is surfaced without a panic only
\* when the block returns before it looks at that request, that is when
\* the compose request was answered with a Failure or an undeserialisable
\* result and the eth_chainId request yielded nothing.
TransportFailureOfChainIdMasked ==
    \A i \in SignCalls :
        (/\ BlockRan(i)
         /\ NoOutput(signCalls[i].composeOut) \/ NoOutput(signCalls[i].chainOut))
          => IF \/ NoOutput(signCalls[i].composeOut)
                \/ AnsweredSuccess(signCalls[i].composeOut, "tx_from_local")
                \/ AnsweredSuccess(signCalls[i].composeOut, "tx_from_other")
             THEN signCalls[i].pc = "panicked" /\ signCalls[i].out = None
             ELSE /\ signCalls[i].pc = "done"
                  /\ Unwrap(Unwrap(signCalls[i].out)).kind = "Failure"

\* The eth_accounts calls handled with signing active.
AccountsCalls == {i \in 1..Len(signCalls) : signCalls[i].kind = "accounts"}

\* C26: an eth_accounts call with signing active is handed to next as it
\* came; a Success whose result is an array comes back with the local
\* address at index 0, the previous elements after it in their order, and
\* id and version as upstream gave them, whether or not the address was in
\* the list; any other output comes back as it is.
C26_AccountsPrepended ==
    \A i \in AccountsCalls :
        /\ signCalls[i].chained
        /\ signCalls[i].fwd = Some(signCalls[i].call)
        /\ signCalls[i].pc = "done" =>
              LET up == Unwrap(signCalls[i].nextOut)
                  o == Unwrap(signCalls[i].out)
              IN  IF IsSome(up) /\ Unwrap(up).kind = "Success"
                     /\ Unwrap(up).result.type = "Array"
                  THEN /\ IsSome(o)
                       /\ Unwrap(o).kind = "Success"
                       /\ Unwrap(o).id = Unwrap(up).id
                       /\ Unwrap(o).jsonrpc = Unwrap(up).jsonrpc
                       /\ Unwrap(o).result.type = "Array"
                       /\ Len(Unwrap(o).result.items) = Len(Unwrap(up).result.items) + 1
                       /\ Unwrap(o).result.items[1] = LocalAddress
                       /\ \A k \in 1..Len(Unwrap(up).result.items) :
                              Unwrap(o).result.items[k + 1] = Unwrap(up).result.items[k]
                  ELSE o = up

\* Upstream's list had the local address already: the client's list has
\* it twice, first and last.
C26_Witness ==
    \E i \in AccountsCalls :
        /\ signCalls[i].pc = "done"
        /\ IsSome(Unwrap(signCalls[i].nextOut))
        /\ Unwrap(Unwrap(signCalls[i].nextOut)).kind = "Success"
        /\ Unwrap(Unwrap(signCalls[i].nextOut)).result = ValueArray(<<"0xother", LocalAddress>>)
        /\ Unwrap(Unwrap(signCalls[i].out)).result =
               ValueArray(<<LocalAddress, "0xother", LocalAddress>>)

\* An eth_accounts call got a Failure, and one a result that is no array.
AccountsOtherOutputs ==
    /\ \E i \in AccountsCalls :
          /\ signCalls[i].pc = "done"
          /\ IsSome(Unwrap(signCalls[i].out))
          /\ Unwrap(Unwrap(signCalls[i].out)).kind = "Failure"
    /\ \E i \in AccountsCalls :
          /\ signCalls[i].pc = "done"
          /\ IsSome(Unwrap(signCalls[i].out))
          /\ Unwrap(Unwrap(signCalls[i].out)).kind = "Success"
          /\ Unwrap(Unwrap(signCalls[i].out)).result = ValueString("0x1")

\* The upstream closure yielded no output for a request of call i, which
\* the premise "upstream answers every request" excludes.
Unanswered(i) ==
    \/ NoOutput(signCalls[i].composeOut)
    \/ NoOutput(signCalls[i].chainOut)

\* C31: when upstream's future resolves for every request, every rewritten
\* call eventually has its compose request sent and eventually completes:
\* whichever way its predecessor left the signing path, the predecessor's
\* receiver resolves.
C31_SigningLockLiveness ==
    \A i \in 1..MaxSignCalls :
        (i \in SignCalls) ~>
            (/\ SentFor(i, "compose") # {}
             /\ signCalls[i].pc = "done" \/ Unanswered(i))

\* A call waited for its predecessor, the predecessor left the signing path
\* with a Failure, and the call has sent its compose request and completed.
C31_Witness ==
    \E i \in SignCalls :
        /\ IsSome(signCalls[i].prev)
        /\ signCalls[Unwrap(signCalls[i].prev)].pc = "done"
        /\ IsSome(Unwrap(signCalls[Unwrap(signCalls[i].prev)].out))
        /\ Unwrap(Unwrap(signCalls[Unwrap(signCalls[i].prev)].out)).kind = "Failure"
        /\ SentFor(i, "compose") # {}
        /\ signCalls[i].pc = "done"

\* The rewritten calls whose future was dropped.
Cancelled == {i \in 1..Len(signCalls) : signCalls[i].pc = "cancelled"}

\* The unanswered compose requests of the calls that were not dropped.
RemainingComposeInFlight == {r \in ComposeInFlight : r.owner \notin Cancelled}

\* C40: whatever futures of rewritten calls are dropped, no two compose
\* requests of the calls that remain are in flight together.
C40_SerialisedAfterCancellation == Cardinality(RemainingComposeInFlight) <= 1

\* What holds: a dropped call does not block its successor: the receiver
\* the successor waits for has resolved, and the successor's compose
\* request can be sent.
SuccessorsNotBlocked ==
    \A i \in 1..Len(signCalls) :
        (/\ signCalls[i].pc = "waitPrev"
         /\ Unwrap(signCalls[i].prev) \in Cancelled)
            => /\ ReceiverResolved(Unwrap(signCalls[i].prev))
               /\ ENABLED SignComposeAfterPrev(i)

\* What holds: as long as no call is dropped while it waits for its
\* predecessor, the compose requests of the remaining calls are serialised.
SerialisedUnlessWaiterDropped ==
    (\A i \in Cancelled : SentFor(i, "compose") # {}) =>
        Cardinality(RemainingComposeInFlight) <= 1

\* The second of three calls was dropped while it waited for the first;
\* the compose requests of the first and of the third are both unanswered.
WaiterDroppedTwoComposing ==
    /\ Len(signCalls) = 3
    /\ Cancelled = {2}
    /\ SentFor(2, "compose") = {}
    /\ \E r \in ComposeInFlight : r.owner = 1
    /\ \E r \in ComposeInFlight : r.owner = 3

(***************************************************************************)
(* Claims about the permissioning middleware                               *)
(***************************************************************************)

\* The decision the configuration prescribes for a call: the per-method
\* policy for a MethodCall whose name has an override, the base policy for
\* everything else.
PolicyFor(call) ==
    IF call.kind = "MethodCall" /\ permissioned[Unwrap(call.method)] # None
    THEN Unwrap(permissioned[Unwrap(call.method)])
    ELSE permBase

DeniedFailure(call) ==
    [kind |-> "Failure", jsonrpc |-> call.jsonrpc, id |-> Unwrap(call.id),
     code |-> -1, message |-> "You are not allowed to call that method."]

\* C9: a call is chained to next exactly when its decision is Allow, where
\* the decision is the override for a MethodCall whose method has one and
\* the base policy otherwise (Notification and Invalid calls always get the
\* base policy, whatever override exists for the method they name).
C9_PermDecision ==
    \A i \in 1..Len(permLog) :
        permLog[i].chained <=> (PolicyFor(permLog[i].call) = "Allow")

\* A whitelisted MethodCall went through under base Deny and a notification
\* naming the same (Allow-overridden) method was rejected by the base policy.
C9_Witness ==
    /\ permBase = "Deny"
    /\ \E i, j \in 1..Len(permLog) :
          /\ permLog[i].call.kind = "MethodCall"
          /\ permissioned[Unwrap(permLog[i].call.method)] = Some("Allow")
          /\ permLog[i].chained
          /\ permLog[j].call.kind = "Notification"
          /\ permLog[j].call.method = permLog[i].call.method
          /\ ~permLog[j].chained

\* C10: a denied call never reaches next, and its result is the fixed
\* Failure (code -1, the fixed message, the call's id and version) when the
\* call has an id, and no output when it is a Notification; next has been
\* invoked exactly once per allowed call.
C10_PermDeny ==
    /\ \A i \in 1..Len(permLog) :
          PolicyFor(permLog[i].call) = "Deny" =>
              /\ ~permLog[i].chained
              /\ permLog[i].out =
                    IF permLog[i].call.kind = "Notification"
                    THEN None
                    ELSE Some(DeniedFailure(permLog[i].call))
    /\ permNextCalled =
          Cardinality({i \in 1..Len(permLog) : PolicyFor(permLog[i].call) = "Allow"})

\* A denied MethodCall without a version got its Failure, a denied
\* notification got nothing, and next was never invoked.
C10_Witness ==
    /\ permNextCalled = 0
    /\ \E i, j \in 1..Len(permLog) :
          /\ permLog[i].call.kind = "MethodCall"
          /\ permLog[i].call.jsonrpc = None
          /\ permLog[i].out # None
          /\ permLog[j].call.kind = "Notification"
          /\ permLog[j].out = None

==========================================================================
